---- MODULE Spec2Model ----
(***************************************************************************)
(* Schema graph engine of the NoSQL diagram tool: the reference manager,   *)
(* the layout engine, the OpenAPI importer and the exporters, together     *)
(* with the canvas handlers that call them.                                *)
(*                                                                         *)
(* Representation.                                                         *)
(*  - A string is a sequence of one-character strings, so that the casing  *)
(*    helpers are computed character by character as the regular           *)
(*    expressions of the source do.  The empty sequence is the empty       *)
(*    string, which JavaScript treats as absent in every test of the       *)
(*    source (`if (property.ref)`, `propDef.$ref`).                        *)
(*  - A property map (a JavaScript object) is a sequence of entries        *)
(*    [key, prop] with pairwise distinct keys, in insertion order.         *)
(*  - An id is <<"uuid", i, k>> for the k-th uuidv4() of the import i      *)
(*    or <<"entity", t, 0>> for `entity-${Date.now()}`; NoId is undefined. *)
(*  - A position is in thousandths of a pixel.                             *)
(*  - Relationship ids and diagram metadata are not read by any operation  *)
(*    modelled here and are left out of the records.                       *)
(***************************************************************************)
EXTENDS Integers, Sequences, FiniteSets, TLC

VARIABLES data, history, historyIndex, stored, last, steps

vars == <<data, history, historyIndex, stored, last, steps>>

(***************************************************************************)
(* Bounds of the model.                                                    *)
(***************************************************************************)
MaxSteps == 4
MaxClock == 2
MaxDocProps == 2
MaxLayoutEntities == 3
MaxLayoutRels == 2
MaxCalls == 2
MaxLayouts == 2

(***************************************************************************)
(* Units.  The force-directed layout moves an entity by at most the        *)
(* temperature c * (1 - i / iterations) with c = 0.1, so every position is *)
(* kept in units of c / iterations of a pixel (a thousandth).              *)
(***************************************************************************)
iterations == 100

\* 1 / c for the cooling factor c = 0.1
InverseC == 10

UnitsPerPx == InverseC * iterations

Px(n) == n * UnitsPerPx

(***************************************************************************)
(* Characters and strings.                                                 *)
(***************************************************************************)
Space == " "

IsUpper(c) == c \in {"A", "B", "P"}

IsWord(c) == c # Space

UpperOf(c) ==
  CASE c = "a" -> "A" [] c = "b" -> "B" [] c = "p" -> "P" [] OTHER -> c

LowerOf(c) ==
  CASE c = "A" -> "a" [] c = "B" -> "b" [] c = "P" -> "p" [] OTHER -> c

\* String.prototype.replace(/\s+/g, '')
StripSpaces(str) == SelectSeq(str, LAMBDA c : c # Space)

\* the positions matched by /(?:^\w|[A-Z]|\b\w)/g : every alternative
\* consumes one character, so each position is tested on its own
CaseMatch(str, i) ==
  \/ i = 1 /\ IsWord(str[i])
  \/ IsUpper(str[i])
  \/ IsWord(str[i]) /\ (i = 1 \/ ~IsWord(str[i - 1]))

toLowerCase(str) == [i \in 1..Len(str) |-> LowerOf(str[i])]

toCamelCase(str) ==
  StripSpaces([i \in 1..Len(str) |->
    IF CaseMatch(str, i)
      THEN (IF i = 1 THEN LowerOf(str[i]) ELSE UpperOf(str[i]))
      ELSE str[i]])

toTitleCase(str) ==
  StripSpaces([i \in 1..Len(str) |->
    IF CaseMatch(str, i) THEN UpperOf(str[i]) ELSE str[i]])

(***************************************************************************)
(* Values of the data model (src/types/index.ts).                          *)
(***************************************************************************)
NoId == <<"none", 0, 0>>

NoName == <<>>

\* descriptions are kept as a tag and the name the text mentions
NoDesc == <<"none", NoName, NoName>>

RefDesc(name) == <<"Reference to", name, NoName>>

EntityDesc(ownerName, propertyName) == <<"Entity referenced by", ownerName, propertyName>>

\* the empty text
EmptyDesc == <<"", NoName, NoName>>

\* a text typed into a description field
TypedDesc == <<"typed", NoName, NoName>>

NoItems == [type |-> "absent", ref |-> NoName, referenceEntityId |-> NoId]

Property(name, type, description, required, ref, referenceEntityId, items) ==
  [name |-> name, type |-> type, description |-> description,
   required |-> required, ref |-> ref,
   referenceEntityId |-> referenceEntityId, items |-> items]

Relationship(source, target, type) ==
  [source |-> source, target |-> target, type |-> type]

(***************************************************************************)
(* Property maps: JavaScript objects with string keys.                     *)
(***************************************************************************)
Keys(props) == {props[i].key : i \in 1..Len(props)}

HasKey(props, k) == \E i \in 1..Len(props) : props[i].key = k

Get(props, k) == props[CHOOSE i \in 1..Len(props) : props[i].key = k].prop

\* obj[k] = v, and { ...obj, [k]: v }: an existing key keeps its place
Put(props, k, v) ==
  IF HasKey(props, k)
    THEN [i \in 1..Len(props) |->
           IF props[i].key = k THEN [key |-> k, prop |-> v] ELSE props[i]]
    ELSE Append(props, [key |-> k, prop |-> v])

\* entities.map(entity => entity.id === id ? updated : entity)
ReplaceEntity(entities, id, updated) ==
  [i \in 1..Len(entities) |->
    IF entities[i].id = id THEN updated ELSE entities[i]]

\* entities.find(e => e.id === id), for an id that is present
FindEntity(entities, id) ==
  entities[CHOOSE i \in 1..Len(entities) :
    /\ entities[i].id = id
    /\ \A j \in 1..(i - 1) : entities[j].id # id]

HasEntity(entities, id) == \E i \in 1..Len(entities) : entities[i].id = id

Entity(id, name, type, description, properties, required, position, color) ==
  [id |-> id, name |-> name, type |-> type, description |-> description,
   properties |-> properties, required |-> required, position |-> position,
   color |-> color]

(***************************************************************************)
(* ReferenceManager (utils/referenceManager.ts).                           *)
(***************************************************************************)
\* connect: the reference property is written into the source entity
createReferenceOnConnection(sourceEntity, targetEntity, d) ==
  LET propertyName == toCamelCase(targetEntity.name)
      exists == HasKey(sourceEntity.properties, propertyName)
      existingProperty == Get(sourceEntity.properties, propertyName)
      updatedSourceEntity ==
        [sourceEntity EXCEPT !.properties =
          Put(@, propertyName,
              Property(propertyName, "reference", RefDesc(targetEntity.name),
                       FALSE, NoName, targetEntity.id, NoItems))]
  IN IF /\ exists
        /\ existingProperty.type = "reference"
        /\ existingProperty.referenceEntityId = targetEntity.id
       THEN d
       ELSE [d EXCEPT !.entities =
              ReplaceEntity(@, sourceEntity.id, updatedSourceEntity)]

\* data.entities.find(e => e.name.toLowerCase() === entityName.toLowerCase())
NameMatches(entities, entityName) ==
  {i \in 1..Len(entities) :
    toLowerCase(entities[i].name) = toLowerCase(entityName)}

Min(S) == CHOOSE x \in S : \A y \in S : x <= y

Max(S) == CHOOSE x \in S : \A y \in S : x >= y

\* the offset of a synthesized entity from its owner, in pixels
NewEntityOffsetX == 400

\* a createEntityForReference that does not look for an entity of the name
createEntityWithoutLookup(propertyName, sourceEntity, d, now) ==
  [entities |->
     Append(ReplaceEntity(d.entities, sourceEntity.id,
              [sourceEntity EXCEPT !.properties =
                Put(@, propertyName,
                    [Get(sourceEntity.properties, propertyName) EXCEPT
                       !.type = "reference",
                       !.referenceEntityId = <<"entity", now, 0>>])]),
            Entity(<<"entity", now, 0>>, toTitleCase(propertyName), "object",
                   EntityDesc(sourceEntity.name, propertyName), <<>>, <<>>,
                   [x |-> sourceEntity.position.x + NewEntityOffsetX * UnitsPerPx,
                    y |-> sourceEntity.position.y], 0)),
   relationships |->
     Append(d.relationships,
            Relationship(sourceEntity.id, <<"entity", now, 0>>, "reference"))]

\* retypeToReference; now is the value Date.now() returns
createEntityForReference(propertyName, sourceEntity, d, now) ==
  LET entityName == toTitleCase(propertyName)
      entityId == <<"entity", now, 0>>
      matches == NameMatches(d.entities, entityName)
      retyped(id) ==
        [sourceEntity EXCEPT !.properties =
          Put(@, propertyName,
              [Get(sourceEntity.properties, propertyName) EXCEPT
                 !.type = "reference", !.referenceEntityId = id])]
  IN IF matches # {}
       THEN
         LET existingEntity == d.entities[Min(matches)]
             existingRelationship ==
               \E i \in 1..Len(d.relationships) :
                 /\ d.relationships[i].source = sourceEntity.id
                 /\ d.relationships[i].target = existingEntity.id
         IN [entities |->
               ReplaceEntity(d.entities, sourceEntity.id, retyped(existingEntity.id)),
             relationships |->
               IF existingRelationship
                 THEN d.relationships
                 ELSE Append(d.relationships,
                        Relationship(sourceEntity.id, existingEntity.id, "reference"))]
       ELSE
         LET newEntity ==
               Entity(entityId, entityName, "object",
                      EntityDesc(sourceEntity.name, propertyName), <<>>, <<>>,
                      [x |-> sourceEntity.position.x + NewEntityOffsetX * UnitsPerPx,
                       y |-> sourceEntity.position.y], 0)
         IN [entities |->
               Append(ReplaceEntity(d.entities, sourceEntity.id, retyped(entityId)),
                      newEntity),
             relationships |->
               Append(d.relationships,
                      Relationship(sourceEntity.id, entityId, "reference"))]

\* retypeFromReference
removeReference(propertyName, sourceEntity, d) ==
  LET exists == HasKey(sourceEntity.properties, propertyName)
      property == Get(sourceEntity.properties, propertyName)
  IN IF ~exists \/ property.type # "reference" \/ property.referenceEntityId = NoId
       THEN d
       ELSE
         LET referencedEntityId == property.referenceEntityId
             updatedSourceEntity ==
               [sourceEntity EXCEPT !.properties =
                 Put(@, propertyName,
                     [property EXCEPT !.type = "string", !.referenceEntityId = NoId])]
         IN [entities |->
               ReplaceEntity(d.entities, sourceEntity.id, updatedSourceEntity),
             relationships |->
               SelectSeq(d.relationships, LAMBDA rel :
                 ~(rel.source = sourceEntity.id /\ rel.target = referencedEntityId))]

\* deleteEntity
cleanupReferencesOnEntityDelete(deletedEntityId, d) ==
  LET updatedEntities == SelectSeq(d.entities, LAMBDA e : e.id # deletedEntityId)
      cleaned(props) ==
        [i \in 1..Len(props) |->
          IF props[i].prop.referenceEntityId = deletedEntityId
            THEN [props[i] EXCEPT !.prop.type = "string",
                                  !.prop.referenceEntityId = NoId]
            ELSE props[i]]
  IN [entities |->
        [i \in 1..Len(updatedEntities) |->
          [updatedEntities[i] EXCEPT !.properties = cleaned(@)]],
      relationships |->
        SelectSeq(d.relationships, LAMBDA rel :
          rel.source # deletedEntityId /\ rel.target # deletedEntityId)]

\* the property map updateReferencesOnEntityRename builds for one entity:
\* the entries are written one by one into an empty object
RECURSIVE RenameProperties(_, _, _, _, _, _)
RenameProperties(props, i, acc, entityId, oldName, newName) ==
  IF i > Len(props) THEN acc
  ELSE
    LET propName == props[i].key
        property == props[i].prop
        oldPropertyName == toCamelCase(oldName)
        newPropertyName == toCamelCase(newName)
        next ==
          IF property.referenceEntityId = entityId
            THEN IF propName = oldPropertyName
                   THEN Put(acc, newPropertyName,
                            [property EXCEPT !.name = newPropertyName,
                                             !.description = RefDesc(newName)])
                   ELSE Put(acc, propName,
                            [property EXCEPT !.description = RefDesc(newName)])
            ELSE Put(acc, propName, property)
    IN RenameProperties(props, i + 1, next, entityId, oldName, newName)

\* renameEntity
updateReferencesOnEntityRename(entityId, oldName, newName, d) ==
  [entities |->
     [i \in 1..Len(d.entities) |->
       [d.entities[i] EXCEPT !.properties =
         RenameProperties(@, 1, <<>>, entityId, oldName, newName)]],
   relationships |-> d.relationships]

(***************************************************************************)
(* LayoutEngine (utils/layoutUtils.ts).  The callers pass no options, so   *)
(* every strategy runs with its defaults.                                  *)
(***************************************************************************)
HierLevelSpacing == 800

HierEntitySpacing == 200

StartX == 100

StartY == 100

GridEntitySpacing == 400

FdLevelSpacing == 400

FdEntitySpacing == 400

\* the side of the area in k = Math.sqrt((400 * 400) / n)
OptimalSide == 400

\* Math.ceil(Math.sqrt(n))
CeilSqrt(n) == CHOOSE c \in 0..n : c * c >= n /\ (c = 0 \/ (c - 1) * (c - 1) < n)

\* a returned entity sequence; thrown marks a call ended by a TypeError
Returned(entities) == [thrown |-> FALSE, entities |-> entities]

Thrown == [thrown |-> TRUE, entities |-> <<>>]

\* updatedEntities.findIndex(e => e.id === id): 0 stands for -1
FindIndex(entities, id) ==
  IF HasEntity(entities, id)
    THEN Min({i \in 1..Len(entities) : entities[i].id = id})
    ELSE 0

\* SetPositions with each position taken as an offset from the position
\* the entity has
RECURSIVE SetPositionsFromCurrent(_, _, _)
SetPositionsFromCurrent(entities, order, i) ==
  IF i > Len(order) THEN entities
  ELSE
    LET entityIndex == FindIndex(entities, order[i].id)
    IN SetPositionsFromCurrent(
         IF entityIndex # 0
           THEN [entities EXCEPT ![entityIndex].position =
                  [x |-> @.x + order[i].position.x,
                   y |-> @.y + order[i].position.y]]
           ELSE entities,
         order, i + 1)

\* SetPositions with the entity written back as its id and position alone,
\* the spread of the entity left out
RECURSIVE SetPositionsWithoutSpread(_, _, _)
SetPositionsWithoutSpread(entities, order, i) ==
  IF i > Len(order) THEN entities
  ELSE
    LET entityIndex == FindIndex(entities, order[i].id)
    IN SetPositionsWithoutSpread(
         IF entityIndex # 0
           THEN [entities EXCEPT ![entityIndex] =
                  Entity(order[i].id, NoName, "", NoDesc, <<>>, <<>>,
                         order[i].position, 0)]
           ELSE entities,
         order, i + 1)

\* the entities after `updatedEntities[findIndex(id)] = {..., position}` was
\* run for every element of order, a sequence of [id, position], in turn
RECURSIVE SetPositions(_, _, _)
SetPositions(entities, order, i) ==
  IF i > Len(order) THEN entities
  ELSE
    LET entityIndex == FindIndex(entities, order[i].id)
    IN SetPositions(
         IF entityIndex # 0
           THEN [entities EXCEPT ![entityIndex].position = order[i].position]
           ELSE entities,
         order, i + 1)

\* a GridCell that fills the grid column by column
GridCellByColumn(index, cols, spacingX, spacingY) ==
  [x |-> Px(StartX + ((index - 1) \div cols) * spacingX),
   y |-> Px(StartY + ((index - 1) % cols) * spacingY)]

GridCell(index, cols, spacingX, spacingY) ==
  [x |-> Px(StartX + ((index - 1) % cols) * spacingX),
   y |-> Px(StartY + ((index - 1) \div cols) * spacingY)]

\* the [id, position] the forEach of applyGridLayout writes, in its order
GridOrder(entities) ==
  LET cols == CeilSqrt(Len(entities))
  IN [index \in 1..Len(entities) |->
       [id |-> entities[index].id,
        position |-> GridCell(index, cols, GridEntitySpacing, GridEntitySpacing)]]

applyGridLayout(entities) == SetPositions(entities, GridOrder(entities), 1)

(***************************************************************************)
(* Force-directed layout.  The source computes in floating point; here a   *)
(* position is an integer number of units, a force is rounded towards      *)
(* zero to whole pixels, and a step has the length of the temperature in   *)
(* the direction of the rounded force.                                     *)
(***************************************************************************)
\* integer division rounding towards zero
TDiv(a, b) == IF a >= 0 THEN a \div b ELSE -((-a) \div b)

RECURSIVE ISqrtBetween(_, _, _)
ISqrtBetween(n, lo, hi) ==
  IF hi - lo <= 1 THEN lo
  ELSE LET mid == (lo + hi) \div 2
       IN IF mid * mid <= n
            THEN ISqrtBetween(n, mid, hi)
            ELSE ISqrtBetween(n, lo, mid)

\* floor(Math.sqrt(n))
ISqrt(n) == ISqrtBetween(n, 0, 46341)

Zero2 == [x |-> 0, y |-> 0]

VAdd(u, v) == [x |-> u.x + v.x, y |-> u.y + v.y]

VSub(u, v) == [x |-> u.x - v.x, y |-> u.y - v.y]

RECURSIVE VSum(_, _)
VSum(fn, n) == IF n = 0 THEN Zero2 ELSE VAdd(fn[n], VSum(fn, n - 1))

\* p - q in whole pixels
PxDelta(p, q) ==
  [x |-> TDiv(p.x - q.x, UnitsPerPx), y |-> TDiv(p.y - q.y, UnitsPerPx)]

\* dx * dx + dy * dy
SquaredLength(dv) == dv.x * dv.x + dv.y * dv.y

\* the repulsive force along dv, of squared length d2
RepulsionAlong(dv, d2, n) ==
  IF d2 = 0 THEN Zero2
  ELSE [x |-> TDiv(dv.x * OptimalSide * OptimalSide, n * d2),
        y |-> TDiv(dv.y * OptimalSide * OptimalSide, n * d2)]

\* (dx / distance) * (k * k / distance) with k * k = 400 * 400 / n
Repulsion(pos1, pos2, n) ==
  RepulsionAlong(PxDelta(pos1, pos2), SquaredLength(PxDelta(pos1, pos2)), n)

\* the attractive force along dv, with dk = distance * distance / k * 400
AttractionAlong(dv, dk) ==
  [x |-> TDiv(dv.x * dk, OptimalSide), y |-> TDiv(dv.y * dk, OptimalSide)]

\* (dx / distance) * (distance * distance / k)
Attraction(pos1, pos2, n) ==
  AttractionAlong(PxDelta(pos2, pos1),
                  ISqrt(SquaredLength(PxDelta(pos2, pos1)) * n))

EntityIds(entities) == {entities[i].id : i \in 1..Len(entities)}

\* positions.set(entity.id, grid cell) for every entity in turn
SeedPositions(entities) ==
  LET cols == CeilSqrt(Len(entities))
  IN [id \in EntityIds(entities) |->
       GridCell(Max({i \in 1..Len(entities) : entities[i].id = id}), cols,
                FdEntitySpacing, FdLevelSpacing)]

\* what id gets of a force f added to id1 and taken from id2
ShareOf(id, id1, id2, f) ==
  VSub(IF id1 = id THEN f ELSE Zero2, IF id2 = id THEN f ELSE Zero2)

\* the force accumulated for id in one iteration
ForceOn(id, pos, entities, relationships) ==
  LET n == Len(entities)
      pairs ==
        [q \in 1..(n * n) |->
          LET i == ((q - 1) \div n) + 1
              j == ((q - 1) % n) + 1
          IN IF i < j
               THEN ShareOf(id, entities[i].id, entities[j].id,
                            Repulsion(pos[entities[i].id], pos[entities[j].id], n))
               ELSE Zero2]
      links ==
        [r \in 1..Len(relationships) |->
          IF relationships[r].source = id \/ relationships[r].target = id
            THEN ShareOf(id, relationships[r].source, relationships[r].target,
                         Attraction(pos[relationships[r].source],
                                    pos[relationships[r].target], n))
            ELSE Zero2]
  IN VAdd(VSum(pairs, n * n), VSum(links, Len(relationships)))

\* the positions after the pass of `for (let i = 0; i < iterations; i++)`
\* with counter i
\* Math.min(displacement, temperature), in units
StepLength(displacement, temperature) ==
  IF displacement * UnitsPerPx < temperature
    THEN displacement * UnitsPerPx ELSE temperature

\* position moved times times by step along force, of length displacement
Moved(position, force, displacement, step, times) ==
  IF displacement > 0
    THEN [x |-> position.x + times * TDiv(force.x * step, displacement),
          y |-> position.y + times * TDiv(force.y * step, displacement)]
    ELSE position

\* position moved by force at the given temperature
MovedBy(position, force, temperature, times) ==
  Moved(position, force, ISqrt(SquaredLength(force)),
        StepLength(ISqrt(SquaredLength(force)), temperature), times)

RelaxOnce(pos, i, entities, relationships) ==
  [id \in DOMAIN pos |->
    \* the position object of an id is moved once for every entity that
    \* carries the id
    MovedBy(pos[id], ForceOn(id, pos, entities, relationships), iterations - i,
            Cardinality({k \in 1..Len(entities) : entities[k].id = id}))]

\* the passes lo, ..., hi - 1 in turn, evaluated by halves to keep the
\* evaluation shallow; the temperature only falls, so once no entity moves
\* in a pass none moves in a later one
RECURSIVE Relax(_, _, _, _, _)
Relax(pos, lo, hi, entities, relationships) ==
  IF hi - lo <= 1 THEN RelaxOnce(pos, lo, entities, relationships)
  ELSE
    LET mid == (lo + hi) \div 2
        half == Relax(pos, lo, mid, entities, relationships)
    IN IF half = pos THEN pos ELSE Relax(half, mid, hi, entities, relationships)

applyForceDirectedLayout(entities, relationships) ==
  IF Len(entities) = 0 THEN Returned(entities)
  ELSE IF \E r \in 1..Len(relationships) :
            \/ ~HasEntity(entities, relationships[r].source)
            \/ ~HasEntity(entities, relationships[r].target)
    \* positions.get(rel.source)! is undefined: reading .x throws
    THEN Thrown
  ELSE
    LET positions == Relax(SeedPositions(entities), 0, iterations, entities, relationships)
    IN Returned([i \in 1..Len(entities) |->
         [entities[i] EXCEPT !.position = positions[entities[i].id]]])

(***************************************************************************)
(* Depth-hierarchical layout.  referenceDepth is kept as the sequence of   *)
(* [id, depth] in the order the depths are set; depthGroups.get(d) is its  *)
(* subsequence of depth d.                                                 *)
(***************************************************************************)
HasDepth(referenceDepth, id) ==
  \E m \in 1..Len(referenceDepth) : referenceDepth[m].id = id

\* references.get(id): the targets of the reference relationships of id
ReferencesOf(id, relationships) ==
  LET own == SelectSeq(relationships, LAMBDA rel :
               rel.type = "reference" /\ rel.source = id)
  IN [k \in 1..Len(own) |-> own[k].target]

\* referencedBy.get(id) is not empty
IsReferenced(id, relationships) ==
  \E r \in 1..Len(relationships) :
    relationships[r].type = "reference" /\ relationships[r].target = id

\* the traversal started from rootNodes[0] alone
FirstRootOnly(entities, relationships) ==
  LET roots == SelectSeq(entities, LAMBDA e : ~IsReferenced(e.id, relationships))
  IN IF roots = <<>> THEN roots ELSE <<roots[1]>>

RootNodes(entities, relationships) ==
  SelectSeq(entities, LAMBDA e : ~IsReferenced(e.id, relationships))

\* the while loop over the queue
RECURSIVE Bfs(_, _, _)
Bfs(queue, referenceDepth, relationships) ==
  IF queue = <<>> THEN referenceDepth
  ELSE
    LET head == Head(queue)
    IN IF HasDepth(referenceDepth, head.id)
         THEN Bfs(Tail(queue), referenceDepth, relationships)
         ELSE
           LET set == Append(referenceDepth, head)
               referenced ==
                 SelectSeq(ReferencesOf(head.id, relationships),
                           LAMBDA refId : ~HasDepth(set, refId))
           IN Bfs(Tail(queue) \o
                    [k \in 1..Len(referenced) |->
                      [id |-> referenced[k], depth |-> head.depth + 1]],
                  set, relationships)

\* the entities the traversal did not reach, in the order of the sequence
RECURSIVE PlaceUnreached(_, _, _)
PlaceUnreached(entities, i, referenceDepth) ==
  IF i > Len(entities) THEN referenceDepth
  ELSE IF HasDepth(referenceDepth, entities[i].id)
    THEN PlaceUnreached(entities, i + 1, referenceDepth)
  ELSE
    LET maxDepth ==
          Max({referenceDepth[m].depth : m \in 1..Len(referenceDepth)} \cup {-1})
    IN PlaceUnreached(entities, i + 1,
         Append(referenceDepth, [id |-> entities[i].id, depth |-> maxDepth + 1]))

ReferenceDepths(entities, relationships) ==
  LET roots == RootNodes(entities, relationships)
      queue == [k \in 1..Len(roots) |-> [id |-> roots[k].id, depth |-> 0]]
  IN PlaceUnreached(entities, 1, Bfs(queue, <<>>, relationships))

\* the [id, position] positionEntitiesByReferenceDepth writes; every id has
\* one depth, so the columns can be written in any order
DepthOrder(referenceDepth) ==
  LET column(m) ==
        {k \in 1..Len(referenceDepth) :
          referenceDepth[k].depth = referenceDepth[m].depth}
      place(m) ==
        LET depth == referenceDepth[m].depth
            entitiesInDepth == Cardinality(column(m))
            index == Cardinality({k \in column(m) : k < m})
            columnX == Px(StartX + depth * HierLevelSpacing)
            totalHeight == (entitiesInDepth - 1) * Px(HierEntitySpacing)
            columnStartY == Px(StartY) - totalHeight \div 2
        IN [x |-> columnX, y |-> columnStartY + index * Px(HierEntitySpacing)]
  IN [m \in 1..Len(referenceDepth) |->
       [id |-> referenceDepth[m].id, position |-> place(m)]]

positionEntitiesByReferenceDepth(entities, referenceDepth) ==
  SetPositions(entities, DepthOrder(referenceDepth), 1)

\* an applyHierarchicalLayout that runs the depth traversal without roots
applyHierarchicalLayoutWithoutFallback(entities, relationships) ==
  IF Len(entities) = 0 THEN Returned(entities)
  ELSE IF Len(relationships) = 0 THEN Returned(applyGridLayout(entities))
  ELSE Returned(positionEntitiesByReferenceDepth(entities,
         ReferenceDepths(entities, relationships)))

applyHierarchicalLayout(entities, relationships) ==
  IF Len(entities) = 0 THEN Returned(entities)
  ELSE IF Len(relationships) = 0 THEN Returned(applyGridLayout(entities))
  ELSE IF Len(RootNodes(entities, relationships)) = 0
    THEN applyForceDirectedLayout(entities, relationships)
  ELSE Returned(positionEntitiesByReferenceDepth(entities,
         ReferenceDepths(entities, relationships)))

applyLayoutToDiagram(entities, relationships, layoutType) ==
  CASE layoutType = "hierarchical" -> applyHierarchicalLayout(entities, relationships)
    [] layoutType = "force-directed" -> applyForceDirectedLayout(entities, relationships)
    [] layoutType = "grid" -> Returned(applyGridLayout(entities))
    [] OTHER -> Returned(entities)

(***************************************************************************)
(* SchemaParser (utils/schemaParser.ts).  A document is the sequence of    *)
(* the entries of components.schemas; a definition is                      *)
(* [type, properties, required]; a property definition is                  *)
(* [type, ref, items] with ref the `$ref` string split at "/" and "" for   *)
(* an absent type.                                                         *)
(***************************************************************************)
\* COLORS.length
PaletteSize == 8

NoItemsDef == [present |-> FALSE, type |-> "", ref |-> <<>>]

\* ref.split('/') and the last part; an absent $ref has no parts
extractRefName(ref) == IF Len(ref) = 0 THEN NoName ELSE ref[Len(ref)]

\* parseProperty and parseProperties call each other: the properties of a
\* nested object are parsed as the properties of a definition are
RECURSIVE parseProperty(_, _)
RECURSIVE parseProperties(_)
parseProperty(name, propDef) ==
  LET base == Property(name, IF propDef.type = "" THEN "any" ELSE propDef.type,
                       NoDesc, FALSE, NoName, NoId, NoItems)
      withRef ==
        IF propDef.ref # <<>>
          THEN [base EXCEPT !.ref = extractRefName(propDef.ref), !.type = "reference"]
          ELSE base
      withItems ==
        IF propDef.type = "array" /\ propDef.items.present
          THEN [withRef EXCEPT
                 !.type = "array",
                 !.items =
                   IF propDef.items.ref # <<>>
                     THEN [type |-> "reference",
                           ref |-> extractRefName(propDef.items.ref),
                           referenceEntityId |-> NoId]
                     ELSE [type |-> IF propDef.items.type = "" THEN "any"
                                    ELSE propDef.items.type,
                           ref |-> NoName,
                           referenceEntityId |-> NoId]]
          ELSE withRef
  IN IF propDef.type = "object" /\ "properties" \in DOMAIN propDef
       THEN [name |-> withItems.name, type |-> "object",
             description |-> withItems.description,
             required |-> withItems.required, ref |-> withItems.ref,
             referenceEntityId |-> withItems.referenceEntityId,
             items |-> withItems.items,
             properties |-> parseProperties(propDef.properties)]
       ELSE withItems

parseProperties(properties) ==
  [i \in 1..Len(properties) |->
    [key |-> properties[i].key,
     prop |-> parseProperty(properties[i].key, properties[i].def)]]

\* the entity of the index-th definition of the importNo-th import
createEntity(index, name, schemaDef, importNo) ==
  Entity(<<"uuid", importNo, index>>, name,
         IF schemaDef.type = "" THEN "object" ELSE schemaDef.type, NoDesc,
         parseProperties(schemaDef.properties), schemaDef.required,
         Zero2, (index - 1) % PaletteSize)

\* entityMap.get(name): the last entity created under the name, 0 for none
EntityMapGet(entities, name) ==
  IF \E i \in 1..Len(entities) : entities[i].name = name
    THEN Max({i \in 1..Len(entities) : entities[i].name = name})
    ELSE 0

\* the properties of one entity after createRelationships set the ids
ResolveProperties(entities, props) ==
  [i \in 1..Len(props) |->
    LET property == props[i].prop
        target == EntityMapGet(entities, property.ref)
        itemsTarget == EntityMapGet(entities, property.items.ref)
        resolved ==
          IF property.ref # NoName /\ target # 0
            THEN [property EXCEPT !.referenceEntityId = entities[target].id]
            ELSE property
    IN [props[i] EXCEPT !.prop =
         IF property.items.ref # NoName /\ itemsTarget # 0
           THEN [resolved EXCEPT !.items.referenceEntityId = entities[itemsTarget].id]
           ELSE resolved]]

\* a relationship pass that looks at the `$ref` of a property only, not
\* at the `$ref` of its items
RECURSIVE RelationshipsOfOwnRefs(_, _, _, _)
RelationshipsOfOwnRefs(entities, e, i, acc) ==
  IF i > Len(e.properties) THEN acc
  ELSE
    LET property == e.properties[i].prop
        target == EntityMapGet(entities, property.ref)
        own == IF property.ref # NoName /\ target # 0
                 THEN <<Relationship(e.id, entities[target].id, "reference")>>
                 ELSE <<>>
    IN RelationshipsOfOwnRefs(entities, e, i + 1, acc \o own)

\* the relationships createRelationships pushes for one entity
RECURSIVE RelationshipsOf(_, _, _, _)
RelationshipsOf(entities, e, i, acc) ==
  IF i > Len(e.properties) THEN acc
  ELSE
    LET property == e.properties[i].prop
        target == EntityMapGet(entities, property.ref)
        itemsTarget == EntityMapGet(entities, property.items.ref)
        own == IF property.ref # NoName /\ target # 0
                 THEN <<Relationship(e.id, entities[target].id, "reference")>>
                 ELSE <<>>
        ofItems == IF property.items.ref # NoName /\ itemsTarget # 0
                     THEN <<Relationship(e.id, entities[itemsTarget].id, "reference")>>
                     ELSE <<>>
    IN RelationshipsOf(entities, e, i + 1, acc \o own \o ofItems)

RECURSIVE createRelationships(_, _, _)
createRelationships(entities, i, acc) ==
  IF i > Len(entities) THEN acc
  ELSE createRelationships(entities, i + 1,
         RelationshipsOf(entities, entities[i], 1, acc))

\* parseOpenAPI: entity pass, relationship pass, layout pass
parseOpenAPI(schemas, importNo) ==
  LET created ==
        [i \in 1..Len(schemas) |->
          createEntity(i, schemas[i].name, schemas[i].def, importNo)]
      resolved ==
        [i \in 1..Len(created) |->
          [created[i] EXCEPT !.properties = ResolveProperties(created, @)]]
      relationships == createRelationships(created, 1, <<>>)
      laidOut == applyLayoutToDiagram(resolved, relationships, "hierarchical")
  IN [entities |-> laidOut.entities, relationships |-> relationships]

(***************************************************************************)
(* SchemaExporter (utils/schemaExporter.ts), the openapi format.           *)
(***************************************************************************)
SchemaPath(name) == <<<<"#">>, <<"components">>, <<"schemas">>, name>>

NoExportItems == [present |-> FALSE, type |-> "", ref |-> <<>>]

RECURSIVE convertPropertyToOpenAPI(_, _)
convertPropertyToOpenAPI(property, d) ==
  LET base == [description |-> property.description, notFound |-> FALSE,
               type |-> "", ref |-> <<>>, items |-> NoExportItems]
      found == HasEntity(d.entities, property.referenceEntityId)
      referencedEntity == FindEntity(d.entities, property.referenceEntityId)
      itemsFound == HasEntity(d.entities, property.items.referenceEntityId)
      itemsEntity == FindEntity(d.entities, property.items.referenceEntityId)
  IN CASE property.type = "reference" ->
            IF found
              THEN [base EXCEPT !.ref = SchemaPath(referencedEntity.name)]
              ELSE [base EXCEPT !.type = "string", !.notFound = TRUE]
       [] property.type = "array" ->
            [base EXCEPT
              !.type = "array",
              !.items =
                IF property.items.type = "absent"
                  THEN [present |-> TRUE, type |-> "string", ref |-> <<>>]
                ELSE IF property.items.type = "reference"
                  THEN IF itemsFound
                         THEN [present |-> TRUE, type |-> "",
                               ref |-> SchemaPath(itemsEntity.name)]
                         ELSE [present |-> TRUE, type |-> "string", ref |-> <<>>]
                ELSE [present |-> TRUE, type |-> property.items.type, ref |-> <<>>]]
       [] property.type = "object" ->
            IF "properties" \in DOMAIN property
              THEN [description |-> base.description, notFound |-> FALSE,
                    type |-> "object", ref |-> <<>>, items |-> NoExportItems,
                    properties |->
                      [i \in 1..Len(property.properties) |->
                        [key |-> property.properties[i].key,
                         prop |-> convertPropertyToOpenAPI(property.properties[i].prop, d)]]]
              ELSE [base EXCEPT !.type = "object"]
       [] OTHER -> [base EXCEPT !.type = property.type]

\* the nosql format: a field is [type, description, required, reference,
\* items]; a reference that is not found keeps the type and the description
\* of the property
NoFieldItems == [present |-> FALSE, type |-> "", reference |-> NoName]

RECURSIVE convertPropertyToNoSQL(_, _)
convertPropertyToNoSQL(property, d) ==
  LET base == [type |-> property.type, description |-> property.description,
               notFound |-> FALSE, required |-> property.required,
               reference |-> NoName, items |-> NoFieldItems]
      found == HasEntity(d.entities, property.referenceEntityId)
      referencedEntity == FindEntity(d.entities, property.referenceEntityId)
      itemsFound == HasEntity(d.entities, property.items.referenceEntityId)
      itemsEntity == FindEntity(d.entities, property.items.referenceEntityId)
  IN CASE property.type = "reference" ->
            IF found
              THEN [base EXCEPT !.reference = referencedEntity.name]
              ELSE base
       [] property.type = "array" ->
            [base EXCEPT
              !.items =
                IF property.items.type = "absent" THEN NoFieldItems
                ELSE IF property.items.type = "reference" /\ itemsFound
                  THEN [present |-> TRUE, type |-> "reference",
                        reference |-> itemsEntity.name]
                ELSE [present |-> TRUE, type |-> property.items.type,
                      reference |-> NoName]]
       [] property.type = "object" ->
            IF "properties" \in DOMAIN property
              THEN [type |-> "object", description |-> base.description,
                    notFound |-> FALSE, required |-> base.required,
                    reference |-> NoName, items |-> NoFieldItems,
                    properties |->
                      [i \in 1..Len(property.properties) |->
                        [key |-> property.properties[i].key,
                         prop |-> convertPropertyToNoSQL(property.properties[i].prop, d)]]]
              ELSE base
       [] OTHER -> base

\* the json-schema format
DefinitionPath(name) == <<<<"#">>, <<"definitions">>, name>>

RECURSIVE convertPropertyToJSONSchema(_, _)
convertPropertyToJSONSchema(property, d) ==
  LET base == [description |-> property.description, notFound |-> FALSE,
               type |-> "", ref |-> <<>>, items |-> NoExportItems]
      found == HasEntity(d.entities, property.referenceEntityId)
      referencedEntity == FindEntity(d.entities, property.referenceEntityId)
      itemsFound == HasEntity(d.entities, property.items.referenceEntityId)
      itemsEntity == FindEntity(d.entities, property.items.referenceEntityId)
  IN CASE property.type = "reference" ->
            IF found
              THEN [base EXCEPT !.ref = DefinitionPath(referencedEntity.name)]
              ELSE [base EXCEPT !.type = "string", !.notFound = TRUE]
       [] property.type = "array" ->
            [base EXCEPT
              !.type = "array",
              !.items =
                IF property.items.type = "absent"
                  THEN [present |-> TRUE, type |-> "string", ref |-> <<>>]
                ELSE IF property.items.type = "reference"
                  THEN IF itemsFound
                         THEN [present |-> TRUE, type |-> "",
                               ref |-> DefinitionPath(itemsEntity.name)]
                         ELSE [present |-> TRUE, type |-> "string", ref |-> <<>>]
                ELSE [present |-> TRUE, type |-> property.items.type, ref |-> <<>>]]
       [] property.type = "object" ->
            IF "properties" \in DOMAIN property
              THEN [description |-> base.description, notFound |-> FALSE,
                    type |-> "object", ref |-> <<>>, items |-> NoExportItems,
                    properties |->
                      [i \in 1..Len(property.properties) |->
                        [key |-> property.properties[i].key,
                         prop |-> convertPropertyToJSONSchema(property.properties[i].prop, d)]]]
              ELSE [base EXCEPT !.type = "object"]
       [] OTHER -> [base EXCEPT !.type = property.type]

convertEntityToOpenAPISchema(entity, d) ==
  [type |-> "object",
   description |-> entity.description,
   properties |->
     [i \in 1..Len(entity.properties) |->
       [key |-> entity.properties[i].key,
        prop |-> convertPropertyToOpenAPI(entity.properties[i].prop, d)]],
   required |->
     LET flagged == SelectSeq(entity.properties, LAMBDA entry : entry.prop.required)
     IN [i \in 1..Len(flagged) |-> flagged[i].key]]

convertEntityToJSONSchema(entity, d) ==
  [type |-> "object",
   description |-> entity.description,
   properties |->
     [i \in 1..Len(entity.properties) |->
       [key |-> entity.properties[i].key,
        prop |-> convertPropertyToJSONSchema(entity.properties[i].prop, d)]],
   required |->
     LET flagged == SelectSeq(entity.properties, LAMBDA entry : entry.prop.required)
     IN [i \in 1..Len(flagged) |-> flagged[i].key]]

\* schemas[entity.name] = ... for every entity in turn
RECURSIVE ExportSchemas(_, _, _)
ExportSchemas(d, i, acc) ==
  IF i > Len(d.entities) THEN acc
  ELSE ExportSchemas(d, i + 1,
         Put(acc, d.entities[i].name,
             convertEntityToOpenAPISchema(d.entities[i], d)))

\* components.schemas of the exported document
exportToOpenAPI(d) == ExportSchemas(d, 1, <<>>)

(***************************************************************************)
(* The documents offered to the importer: the definition A followed by the *)
(* definition B; A has no property or one `$ref` to B; B has at most       *)
(* MaxDocProps properties under the keys a and p.                          *)
(***************************************************************************)
NameA == <<"A">>

NameB == <<"B">>

NameC == <<"P", "b">>

DocPath(name) == <<<<"#">>, <<"components">>, <<"schemas">>, name>>

PlainDef(type) == [type |-> type, ref |-> <<>>, items |-> NoItemsDef]

RefDef(name) == [type |-> "", ref |-> DocPath(name), items |-> NoItemsDef]

ArrayOfRefDef(name) ==
  [type |-> "array", ref |-> <<>>,
   items |-> [present |-> TRUE, type |-> "", ref |-> DocPath(name)]]

\* a `$ref` next to an array shape
RefAndArrayDef(name) ==
  [type |-> "array", ref |-> DocPath(name),
   items |-> [present |-> TRUE, type |-> "string", ref |-> <<>>]]

DocProps ==
  {[key |-> <<"a">>, def |-> RefDef(NameA)],
   [key |-> <<"a">>, def |-> PlainDef("string")],
   [key |-> <<"p">>, def |-> PlainDef("string")],
   [key |-> <<"p">>, def |-> RefDef(NameA)],
   [key |-> <<"p">>, def |-> RefDef(NameC)],
   [key |-> <<"p">>, def |-> ArrayOfRefDef(NameA)],
   [key |-> <<"p">>, def |-> RefAndArrayDef(NameA)]}

DistinctKeys(props) ==
  \A i, j \in 1..Len(props) : i # j => props[i].key # props[j].key

PropLists(S, n) ==
  {props \in UNION {[1..k -> S] : k \in 0..n} : DistinctKeys(props)}

SchemaDef(properties) == [type |-> "object", properties |-> properties, required |-> <<>>]

\* the documents dropped on the toolbar: schema A, empty or with a reference
\* forward to B, followed by schema B with up to MaxDocProps properties
Docs ==
  LET defA == {[name |-> NameA, def |-> SchemaDef(ps)] :
                ps \in {<<>>, <<[key |-> <<"b">>, def |-> RefDef(NameB)]>>}}
      defB == {[name |-> NameB, def |-> SchemaDef(ps)] :
                ps \in PropLists(DocProps, MaxDocProps)}
  IN {<<a, b>> : a \in defA, b \in defB}

\* the names the entity editor offers for a rename
NewNames == {<<"A">>, <<"P">>, <<"a", " ", "b">>}

Clock == 1..MaxClock

(***************************************************************************)
(* The application: the diagram held by App, its undo history (history,    *)
(* historyIndex), the diagram kept in the browser's storage (stored) and   *)
(* the handlers of the toolbar, the canvas and the entity nodes.  last     *)
(* names the handler that ran last and its arguments.                      *)
(***************************************************************************)
EmptyDiagram == [entities |-> <<>>, relationships |-> <<>>]

\* history[newIndex] for an index the history does not have
Undefined == [undefined |-> TRUE]

\* no file was dropped
NoFile == [parses |-> FALSE, json |-> <<>>]

NoLast ==
  [op |-> "none", owner |-> NoId, key |-> NoName, target |-> NoId,
   name |-> NoName, layoutType |-> "", doc |-> <<>>, file |-> NoFile,
   description |-> NoDesc, color |-> 0]

\* a diagram has the two arrays every render of App reads
Renders(d) == {"entities", "relationships"} \subseteq DOMAIN d

\* localStorage: storage.load() returns null when nothing is stored.  The
\* text storage.save writes is JSON.stringify(d) and storage.load returns
\* its JSON.parse; every value of a diagram of this model is a string, a
\* boolean, a finite number, an array or an object, and undefined fields
\* are absent in both, so the stored text is kept as the value it parses to.
NoStored == [present |-> FALSE, value |-> EmptyDiagram]

save(d) == [present |-> TRUE, value |-> d]

\* the auto-save effect of App, run after a render with the diagram d; a
\* render that throws runs no effect
AutoSave(d, storage) ==
  IF ~Renders(d) THEN storage
  ELSE IF Len(d.entities) > 0 \/ Len(d.relationships) > 0 THEN save(d)
  ELSE storage

\* the length the undo history is cut to
HistoryLimit == 50

\* the updater addToHistory gives setHistory, made in a render with the
\* historyIndex rendered: prevHistory.slice(0, rendered + 1), the push and
\* the shift
pushed(prevHistory, rendered, newData) ==
  LET newHistory ==
        Append(SubSeq(prevHistory, 1, Min({rendered + 1, Len(prevHistory)})),
               newData)
  IN IF Len(newHistory) > HistoryLimit THEN Tail(newHistory) ELSE newHistory

\* the updater addToHistory gives setHistoryIndex
bumped(prevIndex) == Min({prevIndex + 1, HistoryLimit - 1})

\* App.addToHistory called from the render on display; historyIndex counts
\* from 0
addToHistory(newData) ==
  /\ history' = pushed(history, historyIndex, newData)
  /\ historyIndex' = bumped(historyIndex)

\* App.handleDataUpdate and App.handleImport, and the auto-save effect of
\* the render that follows
handleDataUpdate(newData) ==
  /\ data' = newData
  /\ addToHistory(newData)
  /\ stored' = AutoSave(newData, stored)

\* the state of App that opened on the stored diagram d: the load effect
Loaded(d) ==
  /\ data = d
  /\ history = <<d>>
  /\ historyIndex = 0
  /\ stored = save(d)

Init ==
  /\ data = EmptyDiagram
  /\ history = <<EmptyDiagram>>
  /\ historyIndex = 0
  /\ stored = NoStored
  /\ last = NoLast
  /\ steps = 0

Step == steps < MaxSteps /\ steps' = steps + 1

\* Toolbar.onDrop on an OpenAPI document, then App.handleImport.  The
\* handler replaces the diagram and reads nothing of the old one, so the
\* diagrams that follow a later import are those that follow a first one:
\* a run takes its import as its first handler.
Import(doc) ==
  /\ Step
  /\ steps = 0
  /\ handleDataUpdate(parseOpenAPI(doc, 1))
  /\ last' = [NoLast EXCEPT !.op = "import", !.doc = doc]

\* DiagramCanvas.onConnect for a connection drawn from source to target
OnConnect(source, target) ==
  /\ Step
  /\ HasEntity(data.entities, source)
  /\ HasEntity(data.entities, target)
  /\ ~\E r \in 1..Len(data.relationships) :
        /\ data.relationships[r].source = source
        /\ data.relationships[r].target = target
  /\ handleDataUpdate(createReferenceOnConnection(
       FindEntity(data.entities, source),
       FindEntity(data.entities, target),
       [data EXCEPT !.relationships =
         Append(@, Relationship(source, target, "reference"))]))
  /\ last' = [NoLast EXCEPT !.op = "connect", !.owner = source, !.target = target]

\* EntityNode.updateProperty(key, {type: 'reference'}) on the i-th entity
RetypeToReference(i, key, now) ==
  /\ Step
  /\ i \in 1..Len(data.entities)
  /\ HasKey(data.entities[i].properties, key)
  /\ Get(data.entities[i].properties, key).type # "reference"
  /\ handleDataUpdate(createEntityForReference(key, data.entities[i], data, now))
  /\ last' = [NoLast EXCEPT !.op = "retypeToReference",
                            !.owner = data.entities[i].id, !.key = key]

\* EntityNode.updateProperty(key, {type: other than reference}) and
\* EntityNode.deleteProperty(key) on a reference property of the i-th entity
RetypeFromReference(i, key) ==
  /\ Step
  /\ i \in 1..Len(data.entities)
  /\ HasKey(data.entities[i].properties, key)
  /\ Get(data.entities[i].properties, key).type = "reference"
  /\ handleDataUpdate(removeReference(key, data.entities[i], data))
  /\ last' = [NoLast EXCEPT !.op = "retypeFromReference",
                            !.owner = data.entities[i].id, !.key = key,
                            !.target = Get(data.entities[i].properties, key).referenceEntityId]

\* the onDelete callback of DiagramCanvas
DeleteEntity(id) ==
  /\ Step
  /\ HasEntity(data.entities, id)
  /\ handleDataUpdate(cleanupReferencesOnEntityDelete(id, data))
  /\ last' = [NoLast EXCEPT !.op = "deleteEntity", !.target = id]

\* EntityNode.handleSaveEdit with a changed name on the i-th entity
RenameEntity(i, newName) ==
  /\ Step
  /\ i \in 1..Len(data.entities)
  /\ data.entities[i].name # newName
  /\ handleDataUpdate(updateReferencesOnEntityRename(
       data.entities[i].id, data.entities[i].name, newName, data))
  /\ last' = [NoLast EXCEPT !.op = "renameEntity",
                            !.target = data.entities[i].id, !.name = newName]

\* the decimal digits of n, as `${n}` writes them
RECURSIVE Decimal(_)
Decimal(n) ==
  IF n < 10
    THEN <<<<"0", "1", "2", "3", "4", "5", "6", "7", "8", "9">>[n + 1]>>
    ELSE Decimal(n \div 10) \o Decimal(n % 10)

\* Toolbar.handleAddEntity; now is the value Date.now() returns and
\* position the point the two Math.random() calls give
AddEntity(now, position) ==
  /\ Step
  /\ handleDataUpdate(
       [data EXCEPT !.entities =
         Append(@, Entity(<<"entity", now, 0>>,
                          <<"E", "n", "t", "i", "t", "y", "_">>
                            \o Decimal(Len(data.entities) + 1),
                          "object", NoDesc, <<>>, <<>>, position, 0))])
  /\ last' = [NoLast EXCEPT !.op = "addEntity", !.target = <<"entity", now, 0>>]

\* the points handleAddEntity is run with, out of [100, 500) x [100, 400)
AddPositions == {[x |-> Px(100), y |-> Px(100)]}

\* A dropped file: parses tells whether JSON.parse returns, json is the
\* value it returns.  The files are an exported diagram of one entity, a
\* JSON object with none of the fields openapi, components, entities and
\* relationships, and a text that is not JSON.
DiagramFile ==
  [parses |-> TRUE,
   json |-> [entities |->
               <<Entity(<<"uuid", 1, 1>>, NameA, "object", NoDesc, <<>>, <<>>,
                        Zero2, 0)>>,
             relationships |-> <<>>]]

ShapelessFile == [parses |-> TRUE, json |-> [title |-> <<"x">>]]

BrokenFile == [parses |-> FALSE, json |-> <<>>]

Files == {DiagramFile, ShapelessFile, BrokenFile}

\* jsonData.openapi || jsonData.components?.schemas
IsOpenAPI(json) ==
  \/ "openapi" \in DOMAIN json
  \/ /\ "components" \in DOMAIN json
     /\ "schemas" \in DOMAIN json.components

\* Toolbar.onDrop on a file that is not an OpenAPI document, then
\* App.handleImport: what JSON.parse returns is taken as a diagram; a
\* text JSON.parse rejects is reported by toast.error
DropFile(file) ==
  /\ Step
  /\ file.parses => ~IsOpenAPI(file.json)
  /\ IF file.parses
       THEN /\ handleDataUpdate(file.json)
            /\ last' = [NoLast EXCEPT !.op = "imported", !.file = file]
       ELSE /\ UNCHANGED <<data, history, historyIndex, stored>>
            /\ last' = [NoLast EXCEPT !.op = "parseFailed", !.file = file]

\* Toolbar.handleClear, confirmed: the update, then storage.clear(), then
\* the auto-save effect
Clear ==
  /\ Step
  /\ data' = EmptyDiagram
  /\ addToHistory(EmptyDiagram)
  /\ stored' = AutoSave(EmptyDiagram, NoStored)
  /\ last' = [NoLast EXCEPT !.op = "clear"]

\* App.undo and the auto-save effect
undo ==
  /\ Step
  /\ historyIndex > 0
  /\ historyIndex' = historyIndex - 1
  /\ data' = IF historyIndex <= Len(history)
               THEN history[historyIndex] ELSE Undefined
  /\ stored' = AutoSave(IF historyIndex <= Len(history)
                          THEN history[historyIndex] ELSE Undefined, stored)
  /\ UNCHANGED history
  /\ last' = [NoLast EXCEPT !.op = "undo"]

\* App.redo and the auto-save effect
redo ==
  /\ Step
  /\ historyIndex < Len(history) - 1
  /\ historyIndex' = historyIndex + 1
  /\ data' = history[historyIndex + 2]
  /\ stored' = AutoSave(history[historyIndex + 2], stored)
  /\ UNCHANGED history
  /\ last' = [NoLast EXCEPT !.op = "redo"]

AllIds == EntityIds(data.entities)

AllKeys == UNION {Keys(data.entities[i].properties) : i \in 1..Len(data.entities)}

Next ==
  \/ \E doc \in Docs : Import(doc)
  \/ \E source, target \in AllIds : OnConnect(source, target)
  \/ \E i \in 1..Len(data.entities), key \in AllKeys, now \in Clock :
       RetypeToReference(i, key, now)
  \/ \E i \in 1..Len(data.entities), key \in AllKeys : RetypeFromReference(i, key)
  \/ \E id \in AllIds : DeleteEntity(id)
  \/ \E i \in 1..Len(data.entities), newName \in NewNames : RenameEntity(i, newName)

Spec == Init /\ [][Next]_vars

(***************************************************************************)
(* The whole application: the toolbar, the canvas and the entity nodes,    *)
(* with the undo history and the browser's storage.  A render that throws  *)
(* unmounts the application, which takes no callback after it.             *)
(***************************************************************************)
\* the OpenAPI documents dropped on the application
AppDocs == {doc \in Docs : Len(doc[2].def.properties) = 0}

\* the application is mounted: its last render returned
Mounted == Renders(data)

NextApp ==
  \/ Mounted /\ \E doc \in AppDocs : Import(doc)
  \/ Mounted /\ \E file \in Files : DropFile(file)
  \/ Mounted /\ \E now \in Clock, position \in AddPositions : AddEntity(now, position)
  \/ Mounted /\ Clear
  \/ Mounted /\ undo
  \/ Mounted /\ redo
  \/ Mounted /\ \E source, target \in AllIds : OnConnect(source, target)
  \/ Mounted /\ \E i \in 1..Len(data.entities), key \in AllKeys, now \in Clock :
                   RetypeToReference(i, key, now)
  \/ Mounted /\ \E i \in 1..Len(data.entities), key \in AllKeys :
                   RetypeFromReference(i, key)
  \/ Mounted /\ \E id \in AllIds : DeleteEntity(id)
  \/ Mounted /\ \E i \in 1..Len(data.entities), newName \in NewNames :
                   RenameEntity(i, newName)

SpecApp == Init /\ [][NextApp]_vars

(***************************************************************************)
(* The entity editor (components/EntityNode.tsx).  Every handler of a node *)
(* ends in the onUpdate of its node (DiagramCanvas) or in onUpdateDiagram, *)
(* which is App.handleDataUpdate.  The documents imported here have        *)
(* `required` lists, a nested object, `$ref`s that name no definition and  *)
(* definitions in both orders.                                             *)
(***************************************************************************)
ObjectDef(properties) ==
  [type |-> "object", ref |-> <<>>, items |-> NoItemsDef, properties |-> properties]

SchemaDefRequiring(properties, required) ==
  [type |-> "object", properties |-> properties, required |-> required]

EditorDocs ==
  {<<[name |-> NameA,
      def |-> SchemaDefRequiring(<<[key |-> <<"b">>, def |-> RefDef(NameB)]>>, <<<<"b">>>>)],
     [name |-> NameB,
      def |-> SchemaDefRequiring(<<[key |-> <<"a">>, def |-> RefDef(NameA)],
                                   [key |-> <<"p">>, def |-> RefDef(NameC)]>>,
                                 <<<<"a">>>>)]>>,
   <<[name |-> NameB,
      def |-> SchemaDefRequiring(<<[key |-> <<"a">>, def |-> RefDef(NameA)],
                                   [key |-> <<"p">>, def |-> ArrayOfRefDef(NameC)]>>,
                                 <<<<"p">>, <<"a">>>>)],
     [name |-> NameA, def |-> SchemaDef(<<>>)]>>,
   <<[name |-> NameA, def |-> SchemaDef(<<>>)],
     [name |-> NameB,
      def |-> SchemaDefRequiring(
                <<[key |-> <<"p">>,
                   def |-> ObjectDef(<<[key |-> <<"n">>, def |-> RefDef(NameA)]>>)],
                  [key |-> <<"a">>, def |-> ArrayOfRefDef(NameA)]>>,
                <<<<"p">>>>)]>>,
   <<[name |-> NameA, def |-> SchemaDef(<<>>)],
     [name |-> NameB,
      def |-> SchemaDef(<<[key |-> <<"p">>, def |-> RefAndArrayDef(NameC)],
                          [key |-> <<"a">>, def |-> RefDef(NameA)]>>)]>>,
   <<[name |-> NameA, def |-> SchemaDef(<<>>)],
     [name |-> NameB,
      def |-> SchemaDef(<<[key |-> <<"a">>, def |-> RefDef(NameA)],
                          [key |-> <<"p">>, def |-> RefDef(NameA)]>>)]>>}

\* the onUpdate DiagramCanvas gives a node
onUpdate(updatedEntity) ==
  handleDataUpdate(
    [data EXCEPT !.entities = ReplaceEntity(@, updatedEntity.id, updatedEntity)])

\* const { [k]: dropped, ...rest } = props
Rest(props, k) == SelectSeq(props, LAMBDA entry : entry.key # k)

\* required.filter(name => name !== k)
FilterOut(required, k) == SelectSeq(required, LAMBDA name : name # k)

\* required.includes(k)
Includes(required, k) == \E r \in 1..Len(required) : required[r] = k

\* EntityNode.addProperty on the i-th entity
addProperty(i) ==
  LET entity == data.entities[i]
      newPropertyName ==
        <<"p", "r", "o", "p", "e", "r", "t", "y", "_">>
          \o Decimal(Len(entity.properties) + 1)
  IN /\ Step
     /\ onUpdate([entity EXCEPT !.properties =
          Put(@, newPropertyName,
              Property(newPropertyName, "string", EmptyDesc, FALSE,
                       NoName, NoId, NoItems))])
     /\ last' = [NoLast EXCEPT !.op = "addProperty", !.owner = entity.id,
                               !.key = newPropertyName]

\* EntityNode.deleteProperty(propertyName) on the i-th entity
deleteProperty(i, propertyName) ==
  LET entity == data.entities[i]
      property == Get(entity.properties, propertyName)
  IN /\ Step
     /\ HasKey(entity.properties, propertyName)
     /\ IF property.type = "reference" /\ property.referenceEntityId # NoId
          THEN handleDataUpdate(removeReference(propertyName, entity, data))
          ELSE onUpdate([entity EXCEPT
                 !.properties = Rest(@, propertyName),
                 !.required = FilterOut(@, propertyName)])
     /\ last' = [NoLast EXCEPT !.op = "deleteProperty", !.owner = entity.id,
                               !.key = propertyName]

\* the onBlur of the name field of the property propName, which holds
\* editingPropertyName
renameProperty(i, propName, editingPropertyName) ==
  LET entity == data.entities[i]
      oldProp == Get(entity.properties, propName)
  IN /\ Step
     /\ HasKey(entity.properties, propName)
     /\ editingPropertyName # <<>>
     /\ editingPropertyName # propName
     /\ onUpdate([entity EXCEPT !.properties =
          Put(Rest(@, propName), editingPropertyName,
              [oldProp EXCEPT !.name = editingPropertyName])])
     /\ last' = [NoLast EXCEPT !.op = "renameProperty", !.owner = entity.id,
                               !.key = propName, !.name = editingPropertyName]

\* the onChange of the required checkbox of the property propName: the
\* box shows required.includes(propName), a click inverts it
toggleRequired(i, propName) ==
  LET entity == data.entities[i]
      checked == ~Includes(entity.required, propName)
  IN /\ Step
     /\ HasKey(entity.properties, propName)
     /\ onUpdate([entity EXCEPT !.required =
          IF checked THEN Append(@, propName) ELSE FilterOut(@, propName)])
     /\ last' = [NoLast EXCEPT !.op = "toggleRequired", !.owner = entity.id,
                               !.key = propName]

\* EntityNode.handleSaveEdit on the i-th entity with the edit form
\* {name, description, color}
handleSaveEdit(i, name, description, color) ==
  LET entity == data.entities[i]
      oldName == entity.name
      updatedEntity == [entity EXCEPT !.name = name,
                                      !.description = description,
                                      !.color = color]
  IN /\ Step
     /\ IF oldName # name
          THEN handleDataUpdate(
                 updateReferencesOnEntityRename(entity.id, oldName, name, data))
          ELSE onUpdate(updatedEntity)
     /\ last' = [NoLast EXCEPT !.op = "saveEdit", !.target = entity.id,
                               !.name = name, !.description = description,
                               !.color = color]

\* the names typed into the name field of a property
PropertyNames == {<<"a">>, <<"q">>}

\* the names left in the edit form of an entity
FormNames == {NameA, NameB, <<"P">>}

\* the description and the colour left in the edit form
Forms == {[description |-> EmptyDesc, color |-> 0],
          [description |-> TypedDesc, color |-> 1]}

NextEditor ==
  \/ Mounted /\ \E doc \in EditorDocs : Import(doc)
  \/ Mounted /\ \E i \in 1..Len(data.entities) : addProperty(i)
  \/ Mounted /\ \E i \in 1..Len(data.entities), key \in AllKeys :
                   deleteProperty(i, key)
  \/ Mounted /\ \E i \in 1..Len(data.entities), key \in AllKeys,
                   name \in PropertyNames : renameProperty(i, key, name)
  \/ Mounted /\ \E i \in 1..Len(data.entities), key \in AllKeys :
                   toggleRequired(i, key)
  \/ Mounted /\ \E i \in 1..Len(data.entities), name \in FormNames,
                   form \in Forms :
                   handleSaveEdit(i, name, form.description, form.color)

SpecEditor == Init /\ [][NextEditor]_vars

(***************************************************************************)
(* The undo history of App under callbacks that outlive their render.      *)
(* Every callback holds the historyIndex of the render that made it, and   *)
(* React applies the updaters of setHistory and setHistoryIndex to the     *)
(* state of the time they run.  The runs start after a diagram of one      *)
(* entity was loaded and the entity dragged, up to the limit of the        *)
(* history.                                                                *)
(***************************************************************************)
\* entities.map(entity => entity.id === id ? { ...entity, position } : entity)
MovedTo(entities, id, position) ==
  [i \in 1..Len(entities) |->
    IF entities[i].id = id
      THEN [entities[i] EXCEPT !.position = position]
      ELSE entities[i]]

\* DiagramCanvas.onNodeDragStop for the node id dropped at position
onNodeDragStop(id, position) ==
  /\ Step
  /\ HasEntity(data.entities, id)
  /\ handleDataUpdate([data EXCEPT !.entities = MovedTo(@, id, position)])
  /\ last' = [NoLast EXCEPT !.op = "drag", !.target = id]

\* Toolbar.onDrop of an OpenAPI document, a drag of the node id while the
\* FileReader reads the file, then reader.onload: the onImport it calls
\* is the handleImport of the render of the drop
dropThenDrag(doc, id, position) ==
  LET dragged == [data EXCEPT !.entities = MovedTo(@, id, position)]
      imported == parseOpenAPI(doc, 1)
  IN /\ Step
     /\ HasEntity(data.entities, id)
     /\ data' = imported
     /\ history' = pushed(pushed(history, historyIndex, dragged),
                          historyIndex, imported)
     /\ historyIndex' = bumped(bumped(historyIndex))
     /\ stored' = AutoSave(imported, AutoSave(dragged, stored))
     /\ last' = [NoLast EXCEPT !.op = "dropThenDrag", !.target = id, !.doc = doc]

\* the diagram of one entity, made by handleAddEntity, after k drags
Dragged(k) ==
  [entities |->
     <<Entity(<<"entity", 1, 0>>, <<"E", "n", "t", "i", "t", "y", "_", "1">>,
              "object", NoDesc, <<>>, <<>>, [x |-> Px(k), y |-> Px(100)], 0)>>,
   relationships |-> <<>>]

\* the numbers of entries the history starts with
HistoryLengths == {1, HistoryLimit - 1, HistoryLimit}

InitHistory ==
  /\ \E n \in HistoryLengths :
       /\ history = [k \in 1..n |-> Dragged(k)]
       /\ historyIndex = n - 1
       /\ data = Dragged(n)
       /\ stored = save(Dragged(n))
  /\ last = NoLast
  /\ steps = 0

\* the points a node is dropped at
DragPositions == {[x |-> Px(1000), y |-> Px(100)], [x |-> Px(2000), y |-> Px(100)]}

\* the documents dropped on the toolbar
HistoryDocs ==
  {<<[name |-> NameA, def |-> SchemaDef(<<>>)]>>,
   <<[name |-> NameA, def |-> SchemaDef(<<>>)],
     [name |-> NameB,
      def |-> SchemaDef(<<[key |-> <<"a">>, def |-> RefDef(NameA)]>>)]>>}

NextHistory ==
  \/ Mounted /\ \E doc \in HistoryDocs : Import(doc)
  \/ Mounted /\ \E id \in AllIds, position \in DragPositions :
                   onNodeDragStop(id, position)
  \/ Mounted /\ undo
  \/ Mounted /\ redo
  \/ Mounted /\ \E doc \in HistoryDocs, id \in AllIds, position \in DragPositions :
                   dropThenDrag(doc, id, position)

SpecHistory == InitHistory /\ [][NextHistory]_vars

(***************************************************************************)
(* The layout menu of the toolbar, run on the diagrams of at most          *)
(* MaxLayoutEntities entities with pairwise distinct ids and at most       *)
(* MaxLayoutRels relationships: a reference from one entity to another, a  *)
(* composition from the first entity to the last, or a reference from the  *)
(* first entity to an id no entity has.  The relationships of a diagram    *)
(* are listed in the order of their codes.                                 *)
(***************************************************************************)
LayoutId(k) == <<"uuid", 1, k>>

LayoutEntities(n) ==
  [k \in 1..n |->
    Entity(LayoutId(k), NameA, "object", NoDesc, <<>>, <<>>, Zero2, k)]

\* the relationship of a code in 0..n * n + 1
LayoutRelationship(code, n) ==
  IF code < n * n
    THEN Relationship(LayoutId((code \div n) + 1), LayoutId((code % n) + 1), "reference")
  ELSE IF code = n * n
    THEN Relationship(LayoutId(1), LayoutId(n), "composition")
  ELSE Relationship(LayoutId(1), LayoutId(0), "reference")

LayoutCodes(n) ==
  {code \in 0..(n * n + 1) :
     /\ code < n * n => code \div n # code % n
     /\ code = n * n => n > 1}

LayoutRelationships(n) ==
  {[k \in 1..Len(codes) |-> LayoutRelationship(codes[k], n)] :
     codes \in {c \in UNION {[1..m -> LayoutCodes(n)] : m \in 0..MaxLayoutRels} :
                  \A k \in 1..(Len(c) - 1) : c[k] < c[k + 1]}}

LayoutDiagrams ==
  UNION {{[entities |-> LayoutEntities(n), relationships |-> relationships] :
            relationships \in LayoutRelationships(n)} :
         n \in 1..MaxLayoutEntities}

LayoutTypes == {"hierarchical", "force-directed", "grid"}

InitLayout ==
  /\ \E d \in LayoutDiagrams : Loaded(d)
  /\ last = NoLast
  /\ steps = 0

\* Toolbar.handleReorganizeLayout; a TypeError thrown by the layout leaves
\* the diagram as it is
Reorganize(layoutType) ==
  /\ Len(data.entities) # 0
  /\ \E reorganizedEntities \in
          {applyLayoutToDiagram(data.entities, data.relationships, layoutType)} :
       IF reorganizedEntities.thrown
         THEN /\ UNCHANGED <<data, history, historyIndex, stored>>
              /\ last' = [NoLast EXCEPT !.op = "reorganizeThrown",
                                        !.layoutType = layoutType]
         ELSE /\ handleDataUpdate(
                   [data EXCEPT !.entities = reorganizedEntities.entities])
              /\ last' = [NoLast EXCEPT !.op = "reorganize",
                                        !.layoutType = layoutType]
  /\ UNCHANGED steps

NextLayout ==
  /\ historyIndex < MaxLayouts
  /\ \E layoutType \in LayoutTypes : Reorganize(layoutType)

SpecLayout == InitLayout /\ [][NextLayout]_vars

(***************************************************************************)
(* Properties of the reference manager, the importer and the exporter.     *)
(***************************************************************************)
\* the properties of the entities of d
PropertiesOf(d) ==
  UNION {{d.entities[i].properties[j].prop :
            j \in 1..Len(d.entities[i].properties)} :
         i \in 1..Len(d.entities)}

Resolves(id, d) == id = NoId \/ HasEntity(d.entities, id)

\* C1: after every step of the reference manager's operations, every
\* reference-typed property, and every reference-typed items descriptor
\* of an array property, has a referenceEntityId that is absent or is
\* the id of an entity of the diagram.
C1_ReferencesResolve ==
  \A property \in PropertiesOf(data) :
    /\ property.type = "reference" => Resolves(property.referenceEntityId, data)
    /\ property.items.type = "reference" =>
         Resolves(property.items.referenceEntityId, data)

\* an array property whose items refer to an entity was imported, and an
\* entity was deleted
C1_Witness ==
  /\ last.op = "deleteEntity"
  /\ \E property \in PropertiesOf(data) :
       property.items.type = "reference" /\ property.items.referenceEntityId # NoId

NoTrace(id, d) ==
  /\ ~HasEntity(d.entities, id)
  /\ \A r \in 1..Len(d.relationships) :
       d.relationships[r].source # id /\ d.relationships[r].target # id
  /\ \A property \in PropertiesOf(d) :
       property.referenceEntityId # id /\ property.items.referenceEntityId # id

\* C2: the diagram deleteEntity returns has no trace of the deleted id: no
\* entity has it, no relationship has it as source or target, and no
\* property, nor the items descriptor of an array property, has it as
\* referenceEntityId.
C2_DeleteLeavesNoTrace ==
  last.op = "deleteEntity" => NoTrace(last.target, data)

\* an entity that a property referred to was deleted and the owner remains
C2_Witness ==
  /\ last.op = "deleteEntity"
  /\ \E property \in PropertiesOf(data) :
       property.type = "string" /\ property.ref # NoName

\* seq without its r-th element
RemoveAt(seq, r) ==
  [i \in 1..(Len(seq) - 1) |-> IF i < r THEN seq[i] ELSE seq[i + 1]]

\* C3: retypeFromReference on a property of owner that refers to T removes
\* exactly one relationship, from owner to T, and keeps every other
\* relationship in its order.
C3_RetypeFromRemovesOne ==
  [][(/\ last'.op = "retypeFromReference"
      /\ last'.target # NoId) =>
       \E r \in 1..Len(data.relationships) :
         /\ data.relationships[r].source = last'.owner
         /\ data.relationships[r].target = last'.target
         /\ data'.relationships = RemoveAt(data.relationships, r)]_vars

\* retypeFromReference ran on a property that referred to an entity
C3_Witness ==
  /\ last.op = "retypeFromReference"
  /\ last.target # NoId

\* the property under the key connect derives from T's name is already a
\* reference of S to T
AlreadyConnected(S, T) ==
  /\ HasKey(S.properties, toCamelCase(T.name))
  /\ Get(S.properties, toCamelCase(T.name)).type = "reference"
  /\ Get(S.properties, toCamelCase(T.name)).referenceEntityId = T.id

\* C4: connect is idempotent: for every pair of entities S, T of the
\* diagram, connecting them in the diagram that connect(S, T, D) returned,
\* with both entities read from it by their ids, returns that diagram; and
\* when the property under the derived key already is a reference to the
\* other endpoint, connect returns D itself.
C4_ConnectIdempotent ==
  \A s, t \in 1..Len(data.entities) :
    LET S == data.entities[s]
        T == data.entities[t]
        R == createReferenceOnConnection(S, T, data)
    IN /\ createReferenceOnConnection(FindEntity(R.entities, S.id),
                                      FindEntity(R.entities, T.id), R) = R
       /\ AlreadyConnected(S, T) => R = data

\* a connection was drawn from one entity to another, and the owner's
\* imported property under the derived key already referred to the target
C4_Witness ==
  /\ last.op = "connect"
  /\ last.owner # last.target
  /\ \E s, t \in 1..Len(data.entities) :
       /\ data.entities[s].id = last.owner
       /\ data.entities[t].id = last.target
       /\ AlreadyConnected(data.entities[s], data.entities[t])
       /\ Get(data.entities[s].properties,
              toCamelCase(data.entities[t].name)).ref # NoName

\* the properties of the entities with id s or t that refer to the other one
Corresponding(s, t, d) ==
  {<<i, j>> \in (1..Len(d.entities)) \X (1..Len(d.entities) + MaxDocProps + 1) :
     /\ j <= Len(d.entities[i].properties)
     /\ \/ /\ d.entities[i].id = s
           /\ t \in {d.entities[i].properties[j].prop.referenceEntityId,
                     d.entities[i].properties[j].prop.items.referenceEntityId}
        \/ /\ d.entities[i].id = t
           /\ s \in {d.entities[i].properties[j].prop.referenceEntityId,
                     d.entities[i].properties[j].prop.items.referenceEntityId}}

\* C5: after every step of import, draw-connection, retypeToReference,
\* retypeFromReference, deleteEntity and renameEntity, every relationship
\* of type reference corresponds to exactly one property, of its source
\* or of its target, whose referenceEntityId is the other endpoint.
C5_OnePropertyPerRelationship ==
  \A r \in 1..Len(data.relationships) :
    data.relationships[r].type = "reference" =>
      Cardinality(Corresponding(data.relationships[r].source,
                                data.relationships[r].target, data)) = 1

\* a rename moved a reference property onto the key of another one
C5_Witness ==
  /\ last.op = "renameEntity"
  /\ \E r \in 1..Len(data.relationships) :
       Corresponding(data.relationships[r].source,
                     data.relationships[r].target, data) = {}

\* C6: in the importer's output and after every step of the reference
\* manager's operations, a property has referenceEntityId set if and only
\* if its type is reference, and the items descriptor of an array property
\* has referenceEntityId set if and only if its type is reference.
C6_IdSetIffReference ==
  \A property \in PropertiesOf(data) :
    /\ property.referenceEntityId # NoId <=> property.type = "reference"
    /\ property.type = "array" =>
         (property.items.referenceEntityId # NoId <=>
            property.items.type = "reference")

\* the importer gave an array property the id of the entity its `$ref` names
C6_Witness ==
  /\ last.op = "import"
  /\ \E property \in PropertiesOf(data) :
       property.type = "array" /\ property.referenceEntityId # NoId

\* the definitions of doc that have a property key whose `$ref` names a
\* definition of doc
RefProperties(doc) ==
  {<<b, j>> \in (1..Len(doc)) \X (1..MaxDocProps + 1) :
     /\ j <= Len(doc[b].def.properties)
     /\ doc[b].def.properties[j].def.ref # <<>>
     /\ \E a \in 1..Len(doc) :
          doc[a].name = extractRefName(doc[b].def.properties[j].def.ref)}

\* C7: exporting an imported document as openapi gives every top-level
\* property whose `$ref` names a definition of the document that `$ref`
\* again, whatever the order of the definitions.
C7_RoundTripKeepsRef ==
  last.op = "import" =>
    \A bj \in RefProperties(last.doc) :
      LET definition == last.doc[bj[1]]
          entry == definition.def.properties[bj[2]]
          exported == exportToOpenAPI(data)
      IN /\ HasKey(exported, definition.name)
         /\ HasKey(Get(exported, definition.name).properties, entry.key)
         /\ Get(Get(exported, definition.name).properties, entry.key).ref =
              entry.def.ref

\* a document with a `$ref` next to an array shape was imported
C7_Witness ==
  /\ last.op = "import"
  /\ \E bj \in RefProperties(last.doc) :
       last.doc[bj[1]].def.properties[bj[2]].def.type = "array"

(***************************************************************************)
(* Properties of the layout engine.                                        *)
(***************************************************************************)
\* the ids of d that no reference relationship has as its target
Roots(d) ==
  {id \in EntityIds(d.entities) :
     ~\E r \in 1..Len(d.relationships) :
        d.relationships[r].type = "reference" /\ d.relationships[r].target = id}

\* the ids with a path of at most k reference relationships from a root
RECURSIVE Within(_, _)
Within(k, d) ==
  IF k = 0 THEN Roots(d)
  ELSE Within(k - 1, d) \cup
       {d.relationships[r].target : r \in
          {q \in 1..Len(d.relationships) :
             /\ d.relationships[q].type = "reference"
             /\ d.relationships[q].source \in Within(k - 1, d)}}

\* no shortest path is longer than the number of relationships
Reachable(id, d) == id \in Within(Len(d.relationships), d)

Distance(id, d) == Min({k \in 0..Len(d.relationships) : id \in Within(k, d)})

DepthOf(id, referenceDepth) ==
  referenceDepth[CHOOSE m \in 1..Len(referenceDepth) : referenceDepth[m].id = id].depth

\* every entity a root reaches has its distance from the nearest root as
\* depth, and the column of that depth as x
DepthsAreDistances(d) ==
  \A i \in 1..Len(d.entities) :
    Reachable(d.entities[i].id, d) =>
      /\ DepthOf(d.entities[i].id, ReferenceDepths(d.entities, d.relationships)) =
           Distance(d.entities[i].id, d)
      /\ d.entities[i].position.x =
           Px(StartX + Distance(d.entities[i].id, d) * HierLevelSpacing)

GridArrangement(entities) ==
  LET n == Len(entities)
      cols == CeilSqrt(n)
      origin == entities[1].position
      spacing == IF n >= 2 THEN entities[2].position.x - origin.x ELSE 1
  IN /\ spacing > 0
     /\ \A i \in 1..n :
          entities[i].position =
            [x |-> origin.x + ((i - 1) % cols) * spacing,
             y |-> origin.y + ((i - 1) \div cols) * spacing]

\* C9: whichever strategy is requested for a diagram without
\* relationships, the entities end in the grid arrangement.
C9_GridWithoutRelationships ==
  (last.op = "reorganize" /\ Len(data.relationships) = 0) =>
    GridArrangement(data.entities)

\* the force-directed layout ran on three entities without relationships
C9_Witness ==
  /\ last.op = "reorganize"
  /\ last.layoutType = "force-directed"
  /\ Len(data.relationships) = 0
  /\ Len(data.entities) = 3

SamePositions(es, fs) ==
  /\ Len(es) = Len(fs)
  /\ \A i \in 1..Len(es) : es[i].position = fs[i].position

\* C10: for the grid and the hierarchical strategy, laying out the output
\* of a first layout again, with the same relationships, gives every
\* entity the position the first layout gave it.
C10_LayoutIdempotent ==
  \A layoutType \in {"grid", "hierarchical"} :
    \A first \in {applyLayoutToDiagram(data.entities, data.relationships, layoutType)} :
      ~first.thrown =>
        \A second \in {applyLayoutToDiagram(first.entities, data.relationships, layoutType)} :
          ~second.thrown /\ SamePositions(second.entities, first.entities)

\* the diagram is the output of the depth traversal over two
\* relationships, so that the layout that follows is a second one
C10_Witness ==
  /\ last.op = "reorganize"
  /\ last.layoutType = "hierarchical"
  /\ Len(data.relationships) = 2
  /\ Roots(data) # {}
  /\ \E i \in 1..Len(data.entities) :
       data.entities[i].position.x > Px(StartX)

\* es and fs have the same length and, position by position, the same
\* entity but for its position
SameButPositions(es, fs) ==
  /\ Len(es) = Len(fs)
  /\ \A i \in 1..Len(es) : [es[i] EXCEPT !.position = fs[i].position] = fs[i]

\* C11: every layout strategy returns the entities it was given, in their
\* order, each with every field but position as it was; the relationships
\* of the diagram the toolbar stores are the ones it had.
C11_LayoutChangesPositionsOnly ==
  /\ [](\A layoutType \in LayoutTypes :
          \A laidOut \in {applyLayoutToDiagram(data.entities, data.relationships,
                                                layoutType)} :
            ~laidOut.thrown => SameButPositions(laidOut.entities, data.entities))
  /\ [][/\ SameButPositions(data'.entities, data.entities)
        /\ data'.relationships = data.relationships]_vars

\* a layout moved an entity of a diagram with relationships
C11_Witness ==
  /\ last.op = "reorganize"
  /\ Len(data.relationships) > 0
  /\ \E i \in 1..Len(data.entities) : data.entities[i].position # Zero2

\* a relationship of d whose source or target is not the id of an entity
Dangling(d) ==
  \E r \in 1..Len(d.relationships) :
    \/ ~HasEntity(d.entities, d.relationships[r].source)
    \/ ~HasEntity(d.entities, d.relationships[r].target)

\* C12: no layout strategy raises an error, whatever the entities and the
\* relationships, dangling relationships included, and each returns an
\* empty entity sequence as it is.
C12_LayoutNeverThrows ==
  \A layoutType \in LayoutTypes :
    /\ \A laidOut \in {applyLayoutToDiagram(data.entities, data.relationships,
                                             layoutType)} :
         ~laidOut.thrown
    /\ applyLayoutToDiagram(<<>>, data.relationships, layoutType) = Returned(<<>>)

\* a layout was asked for on a diagram with a dangling relationship and
\* ended in a TypeError
C12_Witness ==
  /\ last.op = "reorganizeThrown"
  /\ Dangling(data)

(***************************************************************************)
(* Properties of the exporter.                                             *)
(***************************************************************************)
\* a reference property whose referenceEntityId is absent or is not the id
\* of an entity of d
Unresolved(property, d) ==
  /\ property.type = "reference"
  /\ ~HasEntity(d.entities, property.referenceEntityId)

\* C13: in each of the three formats a reference property whose
\* referenceEntityId is absent or names no entity of the diagram is
\* exported with type string and with the suffix added to its description.
C13_UnresolvedExportedAsString ==
  \A property \in PropertiesOf(data) :
    Unresolved(property, data) =>
      /\ convertPropertyToOpenAPI(property, data).type = "string"
      /\ convertPropertyToOpenAPI(property, data).notFound
      /\ convertPropertyToJSONSchema(property, data).type = "string"
      /\ convertPropertyToJSONSchema(property, data).notFound
      /\ convertPropertyToNoSQL(property, data).type = "string"
      /\ convertPropertyToNoSQL(property, data).notFound

\* a document with a `$ref` to a schema it does not define was imported
C13_Witness ==
  /\ last.op = "import"
  /\ \E property \in PropertiesOf(data) :
       Unresolved(property, data) /\ property.ref # NoName

(***************************************************************************)
(* Objects and references.  The operations above are computed on values;   *)
(* here the same operations are followed object by object.  A heap maps    *)
(* the address <<kind, i, j>> of an object to its content: an array is the *)
(* sequence of the addresses of its elements, a property map the sequence  *)
(* of [key, address], an entity its scalar fields with the addresses of    *)
(* its property map and of its position.  A spread, a map, a filter and an *)
(* object literal allocate; an assignment to a member or an index stores   *)
(* into the object the variable refers to.                                 *)
(***************************************************************************)
DiagramAddress == <<"data", 0, 0>>

EntitiesAddress == <<"data.entities", 0, 0>>

RelationshipsAddress == <<"data.relationships", 0, 0>>

NoAddress == <<"undefined", 0, 0>>

\* the scalar fields of an entity
Fields(entity) == [entity EXCEPT !.properties = <<>>, !.position = Zero2]

\* the objects of the diagram d, as the caller holds them
HeapOf(d) ==
  LET n == Len(d.entities)
      addresses ==
        {DiagramAddress, EntitiesAddress, RelationshipsAddress}
          \cup {<<"entity", i, 0>> : i \in 1..n}
          \cup {<<"entity.properties", i, 0>> : i \in 1..n}
          \cup {<<"entity.position", i, 0>> : i \in 1..n}
          \cup UNION {{<<"property", i, j>> : j \in 1..Len(d.entities[i].properties)} :
                        i \in 1..n}
          \cup {<<"relationship", r, 0>> : r \in 1..Len(d.relationships)}
      content(a) ==
        CASE a = DiagramAddress ->
               [entities |-> EntitiesAddress, relationships |-> RelationshipsAddress]
          [] a = EntitiesAddress -> [i \in 1..n |-> <<"entity", i, 0>>]
          [] a = RelationshipsAddress ->
               [r \in 1..Len(d.relationships) |-> <<"relationship", r, 0>>]
          [] a[1] = "entity" ->
               [fields |-> Fields(d.entities[a[2]]),
                properties |-> <<"entity.properties", a[2], 0>>,
                position |-> <<"entity.position", a[2], 0>>]
          [] a[1] = "entity.properties" ->
               [j \in 1..Len(d.entities[a[2]].properties) |->
                 [key |-> d.entities[a[2]].properties[j].key,
                  prop |-> <<"property", a[2], j>>]]
          [] a[1] = "entity.position" -> d.entities[a[2]].position
          [] a[1] = "property" -> d.entities[a[2]].properties[a[3]].prop
          [] OTHER -> d.relationships[a[2]]
  IN [a \in addresses |-> content(a)]

\* the values read through an address
PropertiesAt(heap, a) ==
  [j \in 1..Len(heap[a]) |-> [key |-> heap[a][j].key, prop |-> heap[heap[a][j].prop]]]

EntityAt(heap, a) ==
  [heap[a].fields EXCEPT !.properties = PropertiesAt(heap, heap[a].properties),
                         !.position = heap[heap[a].position]]

EntitiesAt(heap, a) == [i \in 1..Len(heap[a]) |-> EntityAt(heap, heap[a][i])]

RelationshipsAt(heap, a) == [r \in 1..Len(heap[a]) |-> heap[heap[a][r]]]

DiagramAt(heap, a) ==
  [entities |-> EntitiesAt(heap, heap[a].entities),
   relationships |-> RelationshipsAt(heap, heap[a].relationships)]

\* a new object
Allocate(heap, a, content) == (a :> content) @@ heap

\* the outcome of a call: the heap it leaves and the address it returns
Outcome(heap, result) == [heap |-> heap, result |-> result, thrown |-> FALSE]

\* `const updatedEntities = this.entities` in place of the spread: no copy
AliasArray(heap, array, fresh) == [heap |-> heap, address |-> array]

\* `[...array]`: a new array of the same elements
SpreadArray(heap, array, fresh) ==
  [heap |-> Allocate(heap, fresh, heap[array]), address |-> fresh]

\* updatedEntities[entityIndex] = {...updatedEntities[entityIndex], position}
\* for every element of order in turn
RECURSIVE StorePositions(_, _, _, _)
StorePositions(heap, updatedEntities, order, i) ==
  IF i > Len(order) THEN heap
  ELSE
    LET found == {k \in 1..Len(heap[updatedEntities]) :
                    heap[heap[updatedEntities][k]].fields.id = order[i].id}
        entityIndex == Min(found)
        spread == Allocate(
                    Allocate(heap, <<"position", i, 0>>, order[i].position),
                    <<"positioned", i, 0>>,
                    [heap[heap[updatedEntities][entityIndex]] EXCEPT
                       !.position = <<"position", i, 0>>])
    IN StorePositions(
         IF found # {}
           THEN [spread EXCEPT ![updatedEntities][entityIndex] = <<"positioned", i, 0>>]
           ELSE heap,
         updatedEntities, order, i + 1)

gridLayoutOnHeap(heap, entities) ==
  LET updatedEntities == SpreadArray(heap, entities, <<"updatedEntities", 0, 0>>)
  IN Outcome(StorePositions(updatedEntities.heap, updatedEntities.address,
                            GridOrder(EntitiesAt(heap, entities)), 1),
             updatedEntities.address)

\* laidOut is what the relaxation computes: applyForceDirectedLayout on the
\* values of the arguments
forceDirectedLayoutOnHeap(heap, entities, laidOut) ==
  LET es == EntitiesAt(heap, entities)
      \* the object positions holds for an id
      positionOf(id) == <<"positions", FindIndex(es, id), 0>>
      seeded == [a \in {positionOf(id) : id \in EntityIds(es)} |->
                  SeedPositions(es)[es[a[2]].id]] @@ heap
      \* pos.x += ..., pos.y += ... on the objects of positions
      relaxed == [a \in DOMAIN seeded |->
                   IF a[1] = "positions"
                     THEN laidOut.entities[a[2]].position
                     ELSE seeded[a]]
      mapped == [a \in {<<"mapped", i, 0>> : i \in 1..Len(es)} |->
                  [heap[heap[entities][a[2]]] EXCEPT
                     !.position = positionOf(es[a[2]].id)]]
  IN IF Len(es) = 0 THEN Outcome(heap, entities)
     ELSE IF laidOut.thrown
       THEN [heap |-> seeded, result |-> NoAddress, thrown |-> TRUE]
     ELSE Outcome(
            Allocate(mapped @@ relaxed, <<"mapped", 0, 0>>,
                     [i \in 1..Len(es) |-> <<"mapped", i, 0>>]),
            <<"mapped", 0, 0>>)

hierarchicalLayoutOnHeap(heap, entities, relationships, laidOut) ==
  LET es == EntitiesAt(heap, entities)
      rels == RelationshipsAt(heap, relationships)
      updatedEntities == SpreadArray(heap, entities, <<"updatedEntities", 0, 0>>)
  IN IF Len(es) = 0 THEN Outcome(heap, entities)
     ELSE IF Len(rels) = 0 THEN gridLayoutOnHeap(heap, entities)
     ELSE IF Len(RootNodes(es, rels)) = 0
       THEN forceDirectedLayoutOnHeap(heap, entities, laidOut)
     ELSE Outcome(StorePositions(updatedEntities.heap, updatedEntities.address,
                                 DepthOrder(ReferenceDepths(es, rels)), 1),
                  updatedEntities.address)

\* laidOut is applyLayoutToDiagram on the values of the arguments
layoutOnHeap(heap, entities, relationships, layoutType, laidOut) ==
  CASE layoutType = "hierarchical" ->
         hierarchicalLayoutOnHeap(heap, entities, relationships, laidOut)
    [] layoutType = "force-directed" ->
         forceDirectedLayoutOnHeap(heap, entities, laidOut)
    [] layoutType = "grid" -> gridLayoutOnHeap(heap, entities)
    [] OTHER -> Outcome(heap, entities)

\* heap has every object of before with the content it had
ArgumentsKept(heap, before) == \A a \in DOMAIN before : heap[a] = before[a]

\* {...sourceEntity, properties: {...sourceEntity.properties,
\* [propertyName]: property}}, left at <<"updatedSourceEntity", 0, 0>>
SpreadWithProperty(heap, sourceEntity, propertyName, property) ==
  Allocate(
    Allocate(
      Allocate(heap, <<"property literal", 0, 0>>, property),
      <<"properties literal", 0, 0>>,
      Put(heap[heap[sourceEntity].properties], propertyName,
          <<"property literal", 0, 0>>)),
    <<"updatedSourceEntity", 0, 0>>,
    [heap[sourceEntity] EXCEPT !.properties = <<"properties literal", 0, 0>>])

\* data.entities.map(entity => entity.id === id ? updated : entity), left
\* at <<"updatedEntities", 0, 0>>
MapReplacing(heap, entities, id, updated) ==
  Allocate(heap, <<"updatedEntities", 0, 0>>,
    [i \in 1..Len(heap[entities]) |->
      IF heap[heap[entities][i]].fields.id = id THEN updated ELSE heap[entities][i]])

\* the returned { ...data, entities, relationships }
ReturnedDiagram(heap, entities, relationships) ==
  Outcome(Allocate(heap, <<"returned", 0, 0>>,
                   [entities |-> entities, relationships |-> relationships]),
          <<"returned", 0, 0>>)

createReferenceOnConnectionOnHeap(heap, sourceEntity, targetEntity, d) ==
  LET source == EntityAt(heap, sourceEntity)
      target == EntityAt(heap, targetEntity)
      propertyName == toCamelCase(target.name)
      spread == SpreadWithProperty(heap, sourceEntity, propertyName,
                  Property(propertyName, "reference", RefDesc(target.name),
                           FALSE, NoName, target.id, NoItems))
  IN IF /\ HasKey(source.properties, propertyName)
        /\ Get(source.properties, propertyName).type = "reference"
        /\ Get(source.properties, propertyName).referenceEntityId = target.id
       THEN Outcome(heap, d)
       ELSE ReturnedDiagram(
              MapReplacing(spread, heap[d].entities, source.id,
                           <<"updatedSourceEntity", 0, 0>>),
              <<"updatedEntities", 0, 0>>, heap[d].relationships)

\* [...relationships, relationship], left at <<"updatedRelationships", 0, 0>>
SpreadWithRelationship(heap, relationships, relationship) ==
  Allocate(Allocate(heap, <<"relationship literal", 0, 0>>, relationship),
           <<"updatedRelationships", 0, 0>>,
           Append(heap[relationships], <<"relationship literal", 0, 0>>))

createEntityForReferenceOnHeap(heap, propertyName, sourceEntity, d, now) ==
  LET source == EntityAt(heap, sourceEntity)
      entities == EntitiesAt(heap, heap[d].entities)
      relationships == RelationshipsAt(heap, heap[d].relationships)
      entityName == toTitleCase(propertyName)
      entityId == <<"entity", now, 0>>
      matches == NameMatches(entities, entityName)
      retyped(id) ==
        MapReplacing(
          SpreadWithProperty(heap, sourceEntity, propertyName,
            [Get(source.properties, propertyName) EXCEPT
               !.type = "reference", !.referenceEntityId = id]),
          heap[d].entities, source.id, <<"updatedSourceEntity", 0, 0>>)
  IN IF matches # {}
       THEN
         LET existingEntity == entities[Min(matches)]
             existingRelationship ==
               \E i \in 1..Len(relationships) :
                 /\ relationships[i].source = source.id
                 /\ relationships[i].target = existingEntity.id
         IN IF existingRelationship
              THEN ReturnedDiagram(retyped(existingEntity.id),
                     <<"updatedEntities", 0, 0>>, heap[d].relationships)
              ELSE ReturnedDiagram(
                     SpreadWithRelationship(retyped(existingEntity.id),
                       heap[d].relationships,
                       Relationship(source.id, existingEntity.id, "reference")),
                     <<"updatedEntities", 0, 0>>, <<"updatedRelationships", 0, 0>>)
       ELSE
         LET newEntity ==
               Allocate(
                 Allocate(
                   Allocate(retyped(entityId), <<"newEntity.properties", 0, 0>>, <<>>),
                   <<"newEntity.position", 0, 0>>,
                   [x |-> source.position.x + NewEntityOffsetX * UnitsPerPx,
                    y |-> source.position.y]),
                 <<"newEntity", 0, 0>>,
                 [fields |->
                    Fields(Entity(entityId, entityName, "object",
                                  EntityDesc(source.name, propertyName),
                                  <<>>, <<>>, Zero2, 0)),
                  properties |-> <<"newEntity.properties", 0, 0>>,
                  position |-> <<"newEntity.position", 0, 0>>])
             appended ==
               Allocate(newEntity, <<"entities literal", 0, 0>>,
                        Append(newEntity[<<"updatedEntities", 0, 0>>],
                               <<"newEntity", 0, 0>>))
         IN ReturnedDiagram(
              SpreadWithRelationship(appended, heap[d].relationships,
                Relationship(source.id, entityId, "reference")),
              <<"entities literal", 0, 0>>, <<"updatedRelationships", 0, 0>>)

removeReferenceOnHeap(heap, propertyName, sourceEntity, d) ==
  LET source == EntityAt(heap, sourceEntity)
      exists == HasKey(source.properties, propertyName)
      property == Get(source.properties, propertyName)
      updated ==
        MapReplacing(
          SpreadWithProperty(heap, sourceEntity, propertyName,
            [property EXCEPT !.type = "string", !.referenceEntityId = NoId]),
          heap[d].entities, source.id, <<"updatedSourceEntity", 0, 0>>)
      filtered ==
        Allocate(updated, <<"updatedRelationships", 0, 0>>,
          SelectSeq(heap[heap[d].relationships], LAMBDA rel :
            ~(heap[rel].source = source.id
              /\ heap[rel].target = property.referenceEntityId)))
  IN IF ~exists \/ property.type # "reference" \/ property.referenceEntityId = NoId
       THEN Outcome(heap, d)
       ELSE ReturnedDiagram(filtered, <<"updatedEntities", 0, 0>>,
                            <<"updatedRelationships", 0, 0>>)

\* updatedProperties[key] = the object at prop, for every entry in turn
RECURSIVE StoreProperties(_, _, _, _)
StoreProperties(heap, updatedProperties, entries, j) ==
  IF j > Len(entries) THEN heap
  ELSE StoreProperties(
         [heap EXCEPT ![updatedProperties] = Put(@, entries[j].key, entries[j].prop)],
         updatedProperties, entries, j + 1)

\* entities.map(entity => { const updatedProperties = {}; ...forEach...;
\* return {...entity, properties: updatedProperties} }) with the entry
\* rewritten[k][j] written for the j-th property of the k-th entity: a new
\* property object where it is fresh, the property itself where it is not
RECURSIVE MapProperties(_, _, _, _)
MapProperties(heap, entities, rewritten, k) ==
  IF k > Len(entities) THEN heap
  ELSE
    LET entity == entities[k]
        properties == heap[heap[entity].properties]
        literals ==
          [a \in {<<"rewritten property", k, j>> :
                    j \in {i \in 1..Len(properties) : rewritten[k][i].fresh}} |->
            rewritten[k][a[3]].content] @@ heap
        entries ==
          [j \in 1..Len(properties) |->
            [key |-> rewritten[k][j].key,
             prop |-> IF rewritten[k][j].fresh
                        THEN <<"rewritten property", k, j>>
                        ELSE properties[j].prop]]
        written ==
          StoreProperties(Allocate(literals, <<"updatedProperties", k, 0>>, <<>>),
                          <<"updatedProperties", k, 0>>, entries, 1)
    IN MapProperties(
         Allocate(written, <<"mapped entity", k, 0>>,
                  [heap[entity] EXCEPT !.properties = <<"updatedProperties", k, 0>>]),
         entities, rewritten, k + 1)

cleanupReferencesOnEntityDeleteOnHeap(heap, deletedEntityId, d) ==
  LET updatedEntities ==
        SelectSeq(heap[heap[d].entities], LAMBDA e : heap[e].fields.id # deletedEntityId)
      rewritten ==
        [k \in 1..Len(updatedEntities) |->
          [j \in 1..Len(heap[heap[updatedEntities[k]].properties]) |->
            LET entry == heap[heap[updatedEntities[k]].properties][j]
                property == heap[entry.prop]
            IN [key |-> entry.key,
                fresh |-> property.referenceEntityId = deletedEntityId,
                content |-> [property EXCEPT !.type = "string",
                                             !.referenceEntityId = NoId]]]]
      mapped == MapProperties(
                  Allocate(heap, <<"updatedEntities", 0, 0>>, updatedEntities),
                  updatedEntities, rewritten, 1)
      finalEntities ==
        Allocate(mapped, <<"finalEntities", 0, 0>>,
                 [k \in 1..Len(updatedEntities) |-> <<"mapped entity", k, 0>>])
      filtered ==
        Allocate(finalEntities, <<"updatedRelationships", 0, 0>>,
          SelectSeq(heap[heap[d].relationships], LAMBDA rel :
            heap[rel].source # deletedEntityId /\ heap[rel].target # deletedEntityId))
  IN ReturnedDiagram(filtered, <<"finalEntities", 0, 0>>,
                     <<"updatedRelationships", 0, 0>>)

updateReferencesOnEntityRenameOnHeap(heap, entityId, oldName, newName, d) ==
  LET entities == heap[heap[d].entities]
      rewritten ==
        [k \in 1..Len(entities) |->
          [j \in 1..Len(heap[heap[entities[k]].properties]) |->
            LET entry == heap[heap[entities[k]].properties][j]
                property == heap[entry.prop]
                renamed == entry.key = toCamelCase(oldName)
            IN [key |-> IF property.referenceEntityId = entityId /\ renamed
                          THEN toCamelCase(newName) ELSE entry.key,
                fresh |-> property.referenceEntityId = entityId,
                content |-> IF renamed
                              THEN [property EXCEPT !.name = toCamelCase(newName),
                                                    !.description = RefDesc(newName)]
                              ELSE [property EXCEPT !.description = RefDesc(newName)]]]]
      mapped == MapProperties(heap, entities, rewritten, 1)
      updatedEntities ==
        Allocate(mapped, <<"updatedEntities", 0, 0>>,
                 [k \in 1..Len(entities) |-> <<"mapped entity", k, 0>>])
  IN ReturnedDiagram(updatedEntities, <<"updatedEntities", 0, 0>>,
                     heap[d].relationships)

(***************************************************************************)
(* The core operations called on given diagrams.  A run starts from a      *)
(* diagram of the layout menu or from a diagram the importer returns, and  *)
(* is one layout or at most MaxCalls handlers of the reference manager.    *)
(***************************************************************************)
InitOperations ==
  /\ \E d \in LayoutDiagrams \cup {parseOpenAPI(doc, 1) : doc \in Docs} : Loaded(d)
  /\ last = NoLast
  /\ steps = 0

\* a handler of the reference manager
NextReference ==
  \/ \E source, target \in AllIds : OnConnect(source, target)
  \/ \E i \in 1..Len(data.entities), key \in AllKeys, now \in Clock :
       RetypeToReference(i, key, now)
  \/ \E i \in 1..Len(data.entities), key \in AllKeys : RetypeFromReference(i, key)
  \/ \E id \in AllIds : DeleteEntity(id)
  \/ \E i \in 1..Len(data.entities), newName \in NewNames : RenameEntity(i, newName)

NextOperations ==
  \/ /\ steps < MaxCalls
     /\ last.op \notin {"reorganize", "reorganizeThrown"}
     /\ NextReference
  \/ /\ last.op = "none"
     /\ NextLayout

SpecOperations == InitOperations /\ [][NextOperations]_vars

\* the call left every object of before as it was and returned value
KeepsArguments(after, value, before) ==
  /\ ArgumentsKept(after.heap, before)
  /\ DiagramAt(after.heap, after.result) = value

Shapeless(json) ==
  /\ ~IsOpenAPI(json)
  /\ "entities" \notin DOMAIN json
  /\ "relationships" \notin DOMAIN json

\* C15: the import of a JSON file that parses but has no `openapi`, no
\* `components.schemas` and no `entities`/`relationships` at its top level
\* is reported as a failure to parse, and leaves the diagram and the undo
\* history as they were.
C15_ShapelessImportRejected ==
  [][(/\ last'.op \in {"imported", "parseFailed"}
      /\ last'.file.parses
      /\ Shapeless(last'.file.json))
       => /\ last'.op = "parseFailed"
          /\ data' = data
          /\ history' = history
          /\ historyIndex' = historyIndex]_vars

\* a shapeless file was dropped and is now the diagram, at the end of the
\* undo history
C15_Witness ==
  /\ last.op = "imported"
  /\ Shapeless(last.file.json)
  /\ data = last.file.json
  /\ history[historyIndex + 1] = last.file.json
  /\ Len(history) > 1

\* the handlers that change the diagram
Changes ==
  {"addEntity", "connect", "retypeToReference", "retypeFromReference",
   "deleteEntity", "renameEntity", "undo", "redo", "import", "imported"}

\* C16: after every change of the diagram (add entity, connect, retype,
\* delete entity, the last one included, rename, undo, redo, import) and
\* the auto-save effect that follows it, the diagram stored in the browser
\* is the diagram the application shows.
C16_StoredIsCurrent ==
  [][(last'.op \in Changes /\ Renders(data')) => stored' = save(data')]_vars

\* the last entity was deleted and the storage still holds a diagram with
\* entities
C16_Witness ==
  /\ last.op = "deleteEntity"
  /\ data = EmptyDiagram
  /\ stored.present
  /\ Len(stored.value.entities) > 0

\* the ids of the entities of every diagram of the undo history
IdsOfHistory ==
  UNION {EntityIds(history[k].entities) : k \in 1..Len(history)}

\* C17: entity ids are never reused, whatever the clock returns: no two
\* entities of the diagram share an id, and the entity a creation (the
\* toolbar's add-entity, the synthesis by retypeToReference) appends gets
\* an id that no entity of the diagram or of an earlier diagram had.
C17_IdsNeverReused ==
  /\ [](Mounted =>
         \A i, j \in 1..Len(data.entities) :
           i # j => data.entities[i].id # data.entities[j].id)
  /\ [][(/\ last'.op \in {"addEntity", "retypeToReference"}
          /\ Len(data'.entities) > Len(data.entities))
           => data'.entities[Len(data'.entities)].id \notin IdsOfHistory]_vars

\* the toolbar added an entity under the id of an entity of the diagram
C17_Witness ==
  /\ last.op = "addEntity"
  /\ \E i \in 1..(Len(data.entities) - 1) :
       data.entities[i].id = data.entities[Len(data.entities)].id

(***************************************************************************)
(* Properties of connect and of the two retype operations.                 *)
(***************************************************************************)
\* after differs from before in the property map of the e-th entity alone,
\* which gained the key named after the entity other and kept the rest
GainsReference(before, after, e, other) ==
  /\ Len(after.entities) = Len(before.entities)
  /\ \A i \in 1..Len(before.entities) :
       i # e => after.entities[i] = before.entities[i]
  /\ [after.entities[e] EXCEPT !.properties = <<>>]
       = [before.entities[e] EXCEPT !.properties = <<>>]
  /\ ~HasKey(before.entities[e].properties, toCamelCase(other.name))
  /\ Keys(after.entities[e].properties)
       = Keys(before.entities[e].properties) \cup {toCamelCase(other.name)}
  /\ \A k \in Keys(before.entities[e].properties) :
       Get(after.entities[e].properties, k) = Get(before.entities[e].properties, k)
  /\ Get(after.entities[e].properties, toCamelCase(other.name)).type = "reference"
  /\ Get(after.entities[e].properties, toCamelCase(other.name)).referenceEntityId
       = other.id

\* the diagram createReferenceOnConnection is given by onConnect
Connecting(source, target) ==
  [data EXCEPT !.relationships = Append(@, Relationship(source, target, "reference"))]

\* C18: a connect that is not a no-op creates exactly one property: one of
\* the two endpoints gains one new key, the lower camel case of the other
\* endpoint's name, holding a reference to the other endpoint; every
\* property that existed is still there with its content, and the
\* relationships and the other entities are as they were given.
C18_ConnectCreatesOneProperty ==
  [][(/\ last'.op = "connect"
      /\ data' # Connecting(last'.owner, last'.target))
       => /\ data'.relationships = Connecting(last'.owner, last'.target).relationships
          /\ \E e, o \in 1..Len(data.entities) :
               /\ {data.entities[e].id, data.entities[o].id}
                    = {last'.owner, last'.target}
               /\ e # o \/ last'.owner = last'.target
               /\ GainsReference(data, data', e, data.entities[o])]_vars

\* a connect replaced a property the source had under the derived key
C18_Witness ==
  /\ last.op = "connect"
  /\ \E k \in 1..Len(history) :
       /\ k = historyIndex
       /\ HasEntity(history[k].entities, last.owner)
       /\ HasEntity(history[k].entities, last.target)
       /\ \E key \in {toCamelCase(FindEntity(history[k].entities, last.target).name)} :
            /\ HasKey(FindEntity(history[k].entities, last.owner).properties, key)
            /\ Get(FindEntity(history[k].entities, last.owner).properties, key)
                 # Get(FindEntity(data.entities, last.owner).properties, key)

\* the number of relationships from source to target
Between(relationships, source, target) ==
  Cardinality({r \in 1..Len(relationships) :
                 /\ relationships[r].source = source
                 /\ relationships[r].target = target})

\* the outcome of retypeToReference on the property key of the i-th
\* entity of before, when an entity of the title-cased name exists
PointsAtExisting(before, after, i, key) ==
  /\ Len(after.entities) = Len(before.entities)
  /\ \E t \in NameMatches(before.entities, toTitleCase(key)) :
       /\ Get(after.entities[i].properties, key).referenceEntityId
            = before.entities[t].id
       /\ after.relationships =
            IF Between(before.relationships, before.entities[i].id,
                       before.entities[t].id) > 0
              THEN before.relationships
              ELSE Append(before.relationships,
                          Relationship(before.entities[i].id, before.entities[t].id,
                                       "reference"))

\* the outcome when no entity of the title-cased name exists
PointsAtNew(before, after, i, key) ==
  /\ Len(after.entities) = Len(before.entities) + 1
  /\ \E created \in {after.entities[Len(after.entities)]} :
       /\ created.name = toTitleCase(key)
       /\ created.position # before.entities[i].position
       /\ created.position.y = before.entities[i].position.y
       /\ Get(after.entities[i].properties, key).referenceEntityId = created.id
       /\ after.relationships =
            Append(before.relationships,
                   Relationship(before.entities[i].id, created.id, "reference"))

\* C19: retypeToReference of the property p of an owner: if an entity has
\* the title-cased p as its name, whatever the case of the letters, no
\* entity is added, the property points at such an entity and a
\* relationship from the owner to it is appended only if there was none;
\* otherwise one entity of that name, placed at a distance from the owner,
\* and one relationship from the owner to it are appended.  In both cases
\* the property ends as a reference to an entity of the result.
C19_RetypeToReferenceResolves ==
  [][last'.op = "retypeToReference" =>
       \A i \in 1..Len(data.entities) :
         (/\ data.entities[i].id = last'.owner
          /\ HasKey(data.entities[i].properties, last'.key)
          /\ Get(data.entities[i].properties, last'.key).type # "reference"
          /\ \A j \in 1..(i - 1) : data.entities[j].id # last'.owner)
           => /\ IF NameMatches(data.entities, toTitleCase(last'.key)) # {}
                   THEN PointsAtExisting(data, data', i, last'.key)
                   ELSE PointsAtNew(data, data', i, last'.key)
              /\ Get(data'.entities[i].properties, last'.key).type = "reference"
              /\ HasEntity(data'.entities,
                           Get(data'.entities[i].properties, last'.key).referenceEntityId)]_vars

\* a retype synthesized an entity for a property
C19_Witness ==
  /\ last.op = "retypeToReference"
  /\ Len(data.entities) = Len(history[historyIndex].entities) + 1
  /\ data.entities[Len(data.entities)].name = toTitleCase(last.key)
  /\ Get(FindEntity(data.entities, last.owner).properties, last.key).referenceEntityId
       = data.entities[Len(data.entities)].id

\* a key no property has
AbsentKey == <<"z">>

\* C20: retypeFromReference of a reference property, resolved or not,
\* returns a diagram in which the property has the type string and no
\* referenceEntityId; for a property that is not a reference, or a key the
\* entity does not have, it returns the diagram it was given.
C20_RetypeFromReferenceDemotes ==
  /\ [](\A i \in 1..Len(data.entities) :
          \A key \in AllKeys \cup {AbsentKey} :
            (\/ ~HasKey(data.entities[i].properties, key)
             \/ Get(data.entities[i].properties, key).type # "reference")
              => removeReference(key, data.entities[i], data) = data)
  /\ [][last'.op = "retypeFromReference" =>
          \A i \in 1..Len(data.entities) :
            (/\ data.entities[i].id = last'.owner
             /\ HasKey(data.entities[i].properties, last'.key)
             /\ Get(data.entities[i].properties, last'.key).type = "reference"
             /\ \A j \in 1..Len(data.entities) :
                  j # i => data.entities[j].id # last'.owner)
              => /\ Get(data'.entities[i].properties, last'.key).type = "string"
                 /\ Get(data'.entities[i].properties, last'.key).referenceEntityId
                      = NoId]_vars

\* a retype of a reference without referenceEntityId left it a reference
C20_Witness ==
  /\ last.op = "retypeFromReference"
  /\ last.target = NoId
  /\ Get(FindEntity(data.entities, last.owner).properties, last.key).type
       = "reference"
  /\ data = history[historyIndex]

(***************************************************************************)
(* Properties of renameEntity.                                             *)
(***************************************************************************)
\* what renameEntity(id, oldName, newName) made of the property map before
RenamedAsClaimed(before, after, id, oldName, newName) ==
  \A j \in 1..Len(before) :
    IF before[j].prop.referenceEntityId = id
      THEN IF before[j].key = toCamelCase(oldName)
             THEN /\ HasKey(after, toCamelCase(newName))
                  /\ Get(after, toCamelCase(newName)).type = before[j].prop.type
                  /\ Get(after, toCamelCase(newName)).referenceEntityId = id
                  /\ Get(after, toCamelCase(newName)).required
                       = before[j].prop.required
             ELSE /\ HasKey(after, before[j].key)
                  /\ Get(after, before[j].key)
                       = [before[j].prop EXCEPT !.description = RefDesc(newName)]
      ELSE /\ HasKey(after, before[j].key)
           /\ Get(after, before[j].key) = before[j].prop

\* C21: renameEntity(id, oldName, newName, D): in every entity a property
\* referring to id under the key camelCase(oldName) is afterwards under the
\* key camelCase(newName) with its type, referenceEntityId and required
\* flag; a property referring to id under another key keeps its key and
\* gets its description rewritten; every other property is unchanged; the
\* relationships and the sequence of entity ids are unchanged.
C21_RenameRekeys ==
  [][last'.op = "renameEntity" =>
       /\ data'.relationships = data.relationships
       /\ Len(data'.entities) = Len(data.entities)
       /\ \A k \in 1..Len(data.entities) :
            data'.entities[k].id = data.entities[k].id
       /\ \E i \in 1..Len(data.entities) :
            /\ data.entities[i].id = last'.target
            /\ \A k \in 1..Len(data.entities) :
                 RenamedAsClaimed(data.entities[k].properties,
                                  data'.entities[k].properties,
                                  last'.target, data.entities[i].name,
                                  last'.name)]_vars

\* a rename re-keyed a reference onto a key the entity already had
C21_Witness ==
  /\ last.op = "renameEntity"
  /\ \E k \in 1..Len(data.entities) :
       /\ Len(data.entities[k].properties)
            < Len(history[historyIndex].entities[k].properties)
       /\ HasKey(history[historyIndex].entities[k].properties,
                 toCamelCase(last.name))

(***************************************************************************)
(* Properties of the layout strategies, continued.                         *)
(***************************************************************************)
\* the indices of the entities no root reaches
Unreached(d) ==
  {i \in 1..Len(d.entities) : ~Reachable(d.entities[i].id, d)}

\* the deepest depth of the breadth-first traversal: the largest distance
\* of an id a root reaches
DeepestReached(d) ==
  Max({Distance(id, d) : id \in Within(Len(d.relationships), d)})

\* C22: after the hierarchical layout of a diagram with a root, the
\* entities no root reaches stand in one level, the one after the deepest
\* level of the traversal, in the order of the entity sequence: they have
\* the same x and their y grows with their index.
C22_UnreachedShareLevel ==
  (/\ last.op = "reorganize"
   /\ last.layoutType = "hierarchical"
   /\ Roots(data) # {})
    => /\ \A i \in Unreached(data) :
            data.entities[i].position.x =
              Px(StartX + (DeepestReached(data) + 1) * HierLevelSpacing)
       /\ \A i, j \in Unreached(data) :
            i < j => data.entities[i].position.y < data.entities[j].position.y

\* the hierarchical layout ran on a root and two entities that refer to
\* each other, and put the two in different columns
C22_Witness ==
  /\ last.op = "reorganize"
  /\ last.layoutType = "hierarchical"
  /\ Roots(data) # {}
  /\ \E i, j \in Unreached(data) :
       data.entities[i].position.x # data.entities[j].position.x

\* every entity of d stands in a column of the depth layout, an entity a
\* root reaches in the column of its distance
InDepthColumns(d) ==
  /\ DepthsAreDistances(d)
  /\ \A i \in 1..Len(d.entities) :
       \E depth \in 0..(Len(d.entities) + Len(d.relationships)) :
         d.entities[i].position.x = Px(StartX + depth * HierLevelSpacing)

\* what the hierarchical strategy returns for the diagram: the result of
\* the force-directed strategy when no entity is a root, depth columns
\* otherwise
FallsBackWithoutRoot(d) ==
  \A hierarchical \in {applyLayoutToDiagram(d.entities, d.relationships,
                                             "hierarchical")} :
    IF Roots(d) = {}
      THEN hierarchical =
             applyLayoutToDiagram(d.entities, d.relationships, "force-directed")
      ELSE /\ ~hierarchical.thrown
           /\ InDepthColumns([d EXCEPT !.entities = hierarchical.entities])

InGridOf(entities, c) ==
  /\ \A i \in 1..Len(entities) :
       entities[i].position =
         [x |-> Px(StartX + ((i - 1) % c) * GridEntitySpacing),
          y |-> Px(StartY + ((i - 1) \div c) * GridEntitySpacing)]
  /\ \A i, j \in 1..Len(entities) :
       i # j => entities[i].position # entities[j].position
  /\ Cardinality({entities[i].position.y : i \in 1..Len(entities)}) <= c

\* C24: the grid strategy on n entities with pairwise distinct ids puts
\* the entity at index i of the sequence (from 0) at
\* x = startX + (i mod c) * entitySpacing and
\* y = startY + floor(i / c) * entitySpacing with c = ceil(sqrt(n)), so
\* that the positions are pairwise distinct and at most c rows are used.
C24_GridRowMajor ==
  (last.op = "reorganize" /\ last.layoutType = "grid")
    => \E c \in 1..Len(data.entities) :
         /\ c * c >= Len(data.entities)
         /\ (c - 1) * (c - 1) < Len(data.entities)
         /\ InGridOf(data.entities, c)

\* the grid strategy ran on three entities: two columns, the third entity
\* opens the second row
C24_Witness ==
  /\ last.op = "reorganize"
  /\ last.layoutType = "grid"
  /\ Len(data.entities) = 3
  /\ data.entities[2].position = [x |-> Px(StartX + GridEntitySpacing), y |-> Px(StartY)]
  /\ data.entities[3].position = [x |-> Px(StartX), y |-> Px(StartY + GridEntitySpacing)]

(***************************************************************************)
(* Properties of the importer on documents with unresolved references,     *)
(* nested objects and `required` lists.                                    *)
(***************************************************************************)
\* a definition of doc has the name
Defines(doc, name) == \E a \in 1..Len(doc) : doc[a].name = name

\* the top-level properties <<b, j>> of doc
TopLevel(doc) ==
  {<<b, j>> \in (1..Len(doc)) \X (1..MaxDocProps) :
     j <= Len(doc[b].def.properties)}

DefOf(doc, bj) == doc[bj[1]].def.properties[bj[2]].def

\* the property has a `$ref`; the property has an array shape whose items
\* have a `$ref`
HasRef(def) == def.ref # <<>>

HasItemsRef(def) == def.type = "array" /\ def.items.present /\ def.items.ref # <<>>

\* the property the importer made of the top-level property <<b, j>>
ImportedProperty(d, doc, bj) ==
  Get(FindEntity(d.entities, <<"uuid", 1, bj[1]>>).properties,
      doc[bj[1]].def.properties[bj[2]].key)

\* the number of `$ref`s of top-level properties and of their items that
\* name a definition of doc
ResolvingRefs(doc) ==
  Cardinality({bj \in TopLevel(doc) :
     HasRef(DefOf(doc, bj)) /\ Defines(doc, extractRefName(DefOf(doc, bj).ref))})
  + Cardinality({bj \in TopLevel(doc) :
     /\ HasItemsRef(DefOf(doc, bj))
     /\ Defines(doc, extractRefName(DefOf(doc, bj).items.ref))})

\* the import made an entity of every definition
ImportSucceeded(d, doc) ==
  /\ Renders(d)
  /\ Len(d.entities) = Len(doc)
  /\ \A b \in 1..Len(doc) : HasEntity(d.entities, <<"uuid", 1, b>>)

\* the unresolved `$ref`s of the properties in S are kept as the claim says
UnresolvedKept(d, doc, S) ==
  /\ ImportSucceeded(d, doc)
  /\ \A bj \in S :
       /\ (HasRef(DefOf(doc, bj))
           /\ ~Defines(doc, extractRefName(DefOf(doc, bj).ref)))
            => /\ ImportedProperty(d, doc, bj).type = "reference"
               /\ ImportedProperty(d, doc, bj).referenceEntityId = NoId
       /\ (HasItemsRef(DefOf(doc, bj))
           /\ ~Defines(doc, extractRefName(DefOf(doc, bj).items.ref)))
            => /\ ImportedProperty(d, doc, bj).items.type = "reference"
               /\ ImportedProperty(d, doc, bj).items.referenceEntityId = NoId
  /\ Len(d.relationships) = ResolvingRefs(doc)

\* C25: the import of a document in which the `$ref` of a property, or of
\* the items of an array property, names no definition succeeds; the
\* property (or its items descriptor) has type reference and no
\* referenceEntityId, and the relationships are those of the `$ref`s that
\* name a definition.
C25_UnresolvedRefKept ==
  last.op = "import" => UnresolvedKept(data, last.doc, TopLevel(last.doc))

\* the same for the properties whose `$ref` stands alone, without an array
\* or an object shape next to it
C25_UnresolvedRefKeptWithoutShape ==
  last.op = "import" =>
    UnresolvedKept(data, last.doc,
      {bj \in TopLevel(last.doc) :
         HasRef(DefOf(last.doc, bj)) => DefOf(last.doc, bj).type = ""})

\* a document was imported in which a `$ref` and the `$ref` of the items
\* of an array name no definition
C25_Witness ==
  /\ last.op = "import"
  /\ \E bj \in TopLevel(last.doc) :
       /\ HasItemsRef(DefOf(last.doc, bj))
       /\ ~Defines(last.doc, extractRefName(DefOf(last.doc, bj).items.ref))
       /\ ImportedProperty(data, last.doc, bj).items.type = "reference"
       /\ ImportedProperty(data, last.doc, bj).items.referenceEntityId = NoId
  /\ Len(data.relationships) = 1

\* the id the importer gave the definition of doc with the name
IdOfDefinition(doc, name) ==
  <<"uuid", 1, CHOOSE a \in 1..Len(doc) : doc[a].name = name>>

\* the top-level properties of the definition b whose `$ref` names the
\* definition t, and those whose items `$ref` does
RefsTo(doc, b, t) ==
  {bj \in TopLevel(doc) :
     /\ bj[1] = b
     /\ HasRef(DefOf(doc, bj))
     /\ extractRefName(DefOf(doc, bj).ref) = doc[t].name}

ItemsRefsTo(doc, b, t) ==
  {bj \in TopLevel(doc) :
     /\ bj[1] = b
     /\ HasItemsRef(DefOf(doc, bj))
     /\ extractRefName(DefOf(doc, bj).items.ref) = doc[t].name}

\* C26: after an import the relationships are one reference-typed
\* relationship, owner to target, for each top-level property whose `$ref`
\* names a definition and one for each top-level array property whose
\* items `$ref` does, whatever the order of the definitions, and none for
\* the properties of nested objects; the source and the target of every
\* relationship are ids of imported entities, and the referenceEntityId of
\* the referencing property (or of its items) is the target.
C26_RelationshipsOfImport ==
  last.op = "import" =>
    /\ ImportSucceeded(data, last.doc)
    /\ \A b, t \in 1..Len(last.doc) :
         Between(data.relationships, <<"uuid", 1, b>>, <<"uuid", 1, t>>) =
           Cardinality(RefsTo(last.doc, b, t)) + Cardinality(ItemsRefsTo(last.doc, b, t))
    /\ Len(data.relationships) = ResolvingRefs(last.doc)
    /\ \A r \in 1..Len(data.relationships) :
         /\ data.relationships[r].type = "reference"
         /\ HasEntity(data.entities, data.relationships[r].source)
         /\ HasEntity(data.entities, data.relationships[r].target)
    /\ \A bj \in TopLevel(last.doc) :
         /\ (HasRef(DefOf(last.doc, bj))
             /\ Defines(last.doc, extractRefName(DefOf(last.doc, bj).ref)))
              => ImportedProperty(data, last.doc, bj).referenceEntityId =
                   IdOfDefinition(last.doc, extractRefName(DefOf(last.doc, bj).ref))
         /\ (HasItemsRef(DefOf(last.doc, bj))
             /\ Defines(last.doc, extractRefName(DefOf(last.doc, bj).items.ref)))
              => ImportedProperty(data, last.doc, bj).items.referenceEntityId =
                   IdOfDefinition(last.doc, extractRefName(DefOf(last.doc, bj).items.ref))

\* the imported document has an object property with a nested `$ref` to A
\* and an array property whose items `$ref` names A: one relationship
C26_Witness ==
  /\ last.op = "import"
  /\ \E bj \in TopLevel(last.doc) :
       /\ "properties" \in DOMAIN DefOf(last.doc, bj)
       /\ \E n \in 1..Len(DefOf(last.doc, bj).properties) :
            HasRef(DefOf(last.doc, bj).properties[n].def)
       /\ "properties" \in DOMAIN ImportedProperty(data, last.doc, bj)
  /\ \E bj \in TopLevel(last.doc) : HasItemsRef(DefOf(last.doc, bj))
  /\ Len(data.relationships) = 1

\* the imported document has a `$ref` to a definition that comes later
C26_WitnessForward ==
  /\ last.op = "import"
  /\ \E bj \in TopLevel(last.doc) :
       /\ HasRef(DefOf(last.doc, bj))
       /\ \E t \in (bj[1] + 1)..Len(last.doc) :
            /\ last.doc[t].name = extractRefName(DefOf(last.doc, bj).ref)
            /\ ImportedProperty(data, last.doc, bj).referenceEntityId = <<"uuid", 1, t>>

\* the names in a list
NamesIn(list) == {list[r] : r \in 1..Len(list)}

\* the exported `required` list of the entity holds the names of its
\* `required` array, in the openapi and in the json-schema format
ExportsRequired(entity, d) ==
  /\ NamesIn(convertEntityToOpenAPISchema(entity, d).required) = NamesIn(entity.required)
  /\ NamesIn(convertEntityToJSONSchema(entity, d).required) = NamesIn(entity.required)

\* C27: for every entity with at least one property, the `required` list
\* of its exported openapi and json-schema schema holds exactly the names
\* of the entity's `required` array; importing a document and exporting
\* it keeps the `required` list of each definition.
C27_RequiredExported ==
  \A i \in 1..Len(data.entities) :
    Len(data.entities[i].properties) > 0 => ExportsRequired(data.entities[i], data)

\* a document with a `required` list was imported: the entity has the
\* list, its properties are not flagged
C27_Witness ==
  /\ last.op = "import"
  /\ \E i \in 1..Len(data.entities) :
       /\ Len(data.entities[i].properties) > 0
       /\ data.entities[i].required = last.doc[i].def.required
       /\ data.entities[i].required # <<>>

\* what the exporter writes instead: an empty list, whatever the
\* `required` array of the entity holds
C27_ExportedRequiredEmpty ==
  \A i \in 1..Len(data.entities) :
    /\ convertEntityToOpenAPISchema(data.entities[i], data).required = <<>>
    /\ convertEntityToJSONSchema(data.entities[i], data).required = <<>>

(***************************************************************************)
(* Properties of the entity editor.                                        *)
(***************************************************************************)
\* the diagram the last handler was run on
Previous == history[historyIndex]

\* the last handler was handleSaveEdit with a name other than the one the
\* entity had
SavedWithNewName ==
  /\ last.op = "saveEdit"
  /\ FindEntity(Previous.entities, last.target).name # last.name

\* the entity the edit form belongs to has what the form held
FormApplied ==
  LET entity == FindEntity(data.entities, last.target)
  IN /\ entity.name = last.name
     /\ entity.description = last.description
     /\ entity.color = last.color

\* C28: saving an entity edit with a changed name gives a diagram in which
\* the edited entity has the new name, and the description and the colour
\* of the edit form.
C28_SaveEditRenames == SavedWithNewName => FormApplied

\* an edit was saved with the name P for the entity A
C28_Witness ==
  /\ SavedWithNewName
  /\ last.name = <<"P">>
  /\ HasEntity(data.entities, last.target)

\* what the handler does instead: the entity is the one it was, but for
\* its properties
C28_SaveEditKeepsEntity ==
  SavedWithNewName =>
    LET entity == FindEntity(data.entities, last.target)
        before == FindEntity(Previous.entities, last.target)
    IN /\ entity.name = before.name
       /\ entity.description = before.description
       /\ entity.color = before.color

\* an edit saved under the name the entity has is applied
C28_SaveEditSameName ==
  (last.op = "saveEdit" /\ ~SavedWithNewName) => FormApplied

\* every name in the `required` array of an entity of d is a key of its
\* property map
RequiredAreKeys(d) ==
  \A i \in 1..Len(d.entities) :
    NamesIn(d.entities[i].required) \subseteq Keys(d.entities[i].properties)

\* C29: in every diagram reached from an import by adding, deleting and
\* renaming properties, toggling required checkboxes and renaming
\* entities, the `required` array of each entity holds keys of its
\* property map only.
C29_RequiredAreKeys == RequiredAreKeys(data)

\* a property whose name is in the `required` array was renamed
C29_Witness ==
  /\ last.op = "renameProperty"
  /\ Includes(FindEntity(Previous.entities, last.owner).required, last.key)
  /\ RequiredAreKeys(Previous)

\* the handlers other than the two renames keep the inclusion
C29_OnlyRenamesBreak ==
  [][(RequiredAreKeys(data) /\ last'.op \notin {"renameProperty", "saveEdit"})
       => RequiredAreKeys(data')]_vars

(***************************************************************************)
(* Properties of the undo history.                                         *)
(***************************************************************************)
\* the history, its index and the displayed diagram agree
HistoryAgrees(h, index, d) ==
  /\ Len(h) >= 1
  /\ Len(h) <= HistoryLimit
  /\ 0 <= index
  /\ index < Len(h)
  /\ d = h[index + 1]

\* C30: in every state reached by updates, imports, undo and redo, two
\* updates issued from one render included, the history holds between 1
\* and 50 entries, 0 <= historyIndex < the length of the history, and the
\* displayed diagram is history[historyIndex].
C30_HistoryAgrees == HistoryAgrees(history, historyIndex, data)

\* an update drops the entries after the historyIndex it was made at and
\* ends the history with the new diagram
C30_UpdateDiscardsRedo ==
  [][last'.op \in {"drag", "import", "dropThenDrag"}
       => /\ Len(history') <= historyIndex + 2
          /\ history'[Len(history')] = data']_vars

\* an import ran from the render a drag has replaced
C30_Witness ==
  /\ last.op = "dropThenDrag"
  /\ historyIndex >= Len(history)

\* the callbacks of the render on display keep the agreement, at the
\* limit of 50 entries as below it, and an update after an undo leaves
\* the entries up to historyIndex and the new diagram
C30_FreshCallbacksAgree ==
  [][(HistoryAgrees(history, historyIndex, data) /\ last'.op # "dropThenDrag")
       => /\ HistoryAgrees(history', historyIndex', data')
          /\ last'.op \in {"drag", "import"}
               => history' = pushed(history, historyIndex, data')]_vars

\* a drag at the limit: the oldest entry is dropped
C30_WitnessLimit ==
  /\ last.op = "drag"
  /\ Len(history) = HistoryLimit
  /\ historyIndex = HistoryLimit - 1
  /\ history[1] = Dragged(2)

====
